---------------------------- MODULE Spec2Model ----------------------------
(***************************************************************************)
(* A model of the TermSurf telnet text browser (src/server.py): the page   *)
(* render loop of BrowserSession.load_url with its helpers (projection,    *)
(* rect_iou, eligibility, icon-link filter, image conversion), and the     *)
(* command loop of TelnetHandler.handle served by one thread per           *)
(* connection over the shared module globals ROW_ASPECT and ASCII_IMG_W.   *)
(*                                                                         *)
(* Representation.                                                         *)
(*  - Text is a sequence of one-character strings.                         *)
(*  - Python floats are computed over the rationals: a ratio is a pair     *)
(*    <<num, den>> and int(...) is truncation toward zero of an exact      *)
(*    quotient.  ROW_ASPECT is kept in hundredths (0.52 is 52).            *)
(*  - The canvas is the sequence of paint operations applied to it, in     *)
(*    order; the text of a page is the record of that sequence and of the  *)
(*    two listings that follow it.                                         *)
(***************************************************************************)
EXTENDS Integers, Sequences, FiniteSets, TLC

VARIABLES
    ROW_ASPECT,     \* module global, src/server.py:33 (hundredths)
    ASCII_IMG_W,    \* module global, src/server.py:36
    caps,           \* HAVE_PW, HAVE_PIL, HAVE_CAIROSVG, fixed at import
    S,              \* S[c]: the BrowserSession of connection c
    R,              \* R[c]: the load_url activation of connection c
    conn,           \* conn[c]: where the handler thread of c stands
    ncmd,           \* number of command lines the handlers have read so far
    fn              \* inputs and result of a pure function under check

vars == <<ROW_ASPECT, ASCII_IMG_W, caps, S, R, conn, ncmd, fn>>

-----------------------------------------------------------------------------
(* Arithmetic and sequence helpers                                         *)

Max(a, b) == IF a >= b THEN a ELSE b

Min(a, b) == IF a <= b THEN a ELSE b

\* Python int() of the exact quotient n/d (d > 0): truncation toward zero.
Trunc(n, d) == IF n >= 0 THEN n \div d ELSE -((-n) \div d)

\* Python slice s[:k]
Take(s, k) == SubSeq(s, 1, Min(k, Len(s)))

\* Python "a in b" on strings
IsSubstr(a, b) ==
    \E i \in 0..(Len(b) - Len(a)) : SubSeq(b, i + 1, i + Len(a)) = a

\* Python list.index(v) + 1: 1-based position of the first occurrence
IndexOf(seq, v) == CHOOSE i \in 1..Len(seq) : seq[i] = v /\ \A j \in 1..(i - 1) : seq[j] # v

Range(seq) == {seq[i] : i \in 1..Len(seq)}

DigitChars == <<"0", "1", "2", "3", "4", "5", "6", "7", "8", "9">>

RECURSIVE Str(_)
\* Python str(n) for n >= 0, as used by the f-strings
Str(n) == IF n < 10 THEN <<DigitChars[n + 1]>>
          ELSE Str(n \div 10) \o <<DigitChars[(n % 10) + 1]>>

\* Python str.lstrip(): s from its first character that is not a space
LStrip(s) ==
    LET keep == {i \in 1..Len(s) : s[i] # " "}
    IN  IF keep = {} THEN <<>>
        ELSE SubSeq(s, CHOOSE i \in keep : \A j \in keep : i <= j, Len(s))

\* Python str.rstrip(): s up to its last character that is not a space
RStrip(s) ==
    LET keep == {i \in 1..Len(s) : s[i] # " "}
    IN  IF keep = {} THEN <<>>
        ELSE SubSeq(s, 1, CHOOSE i \in keep : \A j \in keep : j <= i)

\* Python str.strip() over the whitespace the snapshot can hold (spaces)
Strip(s) == RStrip(LStrip(s))

-----------------------------------------------------------------------------
(* Program constants                                                       *)

TERM_WIDTH == 110

DefaultRowAspect == 52

DefaultAsciiImgW == 68

AUTO_IMG_MAX == 3

MinViewportPx == 1200

IouThresholdPct == 65

SnippetLen == 24

MinCols == 6

MinRows == 1

AnchorMinLen == 5

BlockMinLen == 30

MinArtW == 20

MinWidth == 60

MaxWidth == 200

MinImgW == 20

MaxImgW == 200

PresetWidth == 80

PresetRowAspect == 50

PresetAsciiImgW == 60

-----------------------------------------------------------------------------
(* rect_iou, src/server.py:152-165.  A rectangle is [x, y, w, h]; the      *)
(* result is the ratio <<inter, union>>, <<0, 1>> standing for 0.0.        *)

rect_iou_asym(a, b) ==
    LET ix1 == Max(a.x, b.x)
        iy1 == Max(a.y, b.y)
        ix2 == Min(a.x + a.w, b.x + b.w)
        iy2 == Min(a.y + a.h, b.y + b.h)
        inter == Max(0, ix2 - ix1) * Max(0, iy2 - iy1)
    IN  IF inter = 0 THEN <<0, 1>> ELSE <<inter, Max(1, a.w * a.h)>>

rect_iou_nosub(a, b) ==
    LET ix1 == Max(a.x, b.x)
        iy1 == Max(a.y, b.y)
        ix2 == Min(a.x + a.w, b.x + b.w)
        iy2 == Min(a.y + a.h, b.y + b.h)
        inter == Max(0, ix2 - ix1) * Max(0, iy2 - iy1)
    IN  IF inter = 0 THEN <<0, 1>> ELSE <<inter, Max(1, a.w * a.h + b.w * b.h)>>

rect_iou(a, b) ==
    LET ax2 == a.x + a.w
        ay2 == a.y + a.h
        bx2 == b.x + b.w
        by2 == b.y + b.h
        ix1 == Max(a.x, b.x)
        iy1 == Max(a.y, b.y)
        ix2 == Min(ax2, bx2)
        iy2 == Min(ay2, by2)
        iw == Max(0, ix2 - ix1)
        ih == Max(0, iy2 - iy1)
        inter == iw * ih
        area_a == a.w * a.h
        area_b == b.w * b.h
    IN  IF inter = 0 THEN <<0, 1>>
        ELSE <<inter, Max(1, area_a + area_b - inter)>>

\* r > 0.65 for a ratio r = <<num, den>>, den > 0
ExceedsThreshold(r) == r[1] * 100 > IouThresholdPct * r[2]

-----------------------------------------------------------------------------
(* Snapshot data: the texts, URLs and images the modelled pages hold.      *)

TopLong == <<"T", "o", "p", " ", "s", "t", "o", "r", "y", " ", "h", "e", "a", "d", "l", "i", "n", "e", " ", "d", "e", "t", "a", "i", "l", "s", " ", "h", "e", "r", "e">>

TopShort == <<"T", "o", "p", " ", "s", "t", "o", "r", "y", " ", "h", "e", "a", "d", "l", "i", "n", "e">>

TextWeather == <<"W", "e", "a", "t", "h", "e", "r">>

TextReadMore == <<"R", "e", "a", "d", " ", "m", "o", "r", "e">>

TextBreaking == <<"B", "r", "e", "a", "k", "i", "n", "g", " ", "N", "e", "w", "s">>

TextOK == <<"O", "K">>

TextX == <<"x">>

TextBanner == <<"S", "a", "l", "e", " ", "b", "a", "n", "n", "e", "r", " ", "w", "i", "t", "h", " ", "a", " ", "l", "o", "n", "g", " ", "p", "r", "o", "m", "o", " ", "t", "e", "x", "t">>

UrlHome == "http://s/"

UrlNews == "http://s/news"

UrlSport == "http://s/sport"

UrlLogo == "http://s/img/logo.png"

ImgA == "http://s/a.png"

ImgSvg == "http://s/b.svg"

\* urlparse(href).path.lower() ends in one of the image extensions (line 458)
HasImageExt(u) == u \in {UrlLogo, ImgA, ImgSvg}

\* the path holds one of the icon/banner keywords (line 459)
HasIconKeyword(u) == u \in {UrlLogo}

\* url.lower().endswith(".svg") (line 466)
EndsWithSvg(u) == u \in {ImgSvg}

\* pixel size of the decoded image behind an image URL
ImgDims(u) == IF u = ImgA THEN [w |-> 400, h |-> 210] ELSE [w |-> 130, h |-> 70]

\* A node as snapshot_dom's page script pushes it, src/server.py:374
Node(tag, x, y, w, h, z, txt, href, src, bg, fw, disp) ==
    [tag |-> tag, x |-> x, y |-> y, w |-> w, h |-> h, z |-> z, txt |-> txt,
     href |-> href, src |-> src, bg |-> bg, fw |-> fw, disp |-> disp]

nContainer == Node("div", 10, 10, 300, 60, 0, TopLong, "", "", "", "400", "block")

nDescendant == Node("p", 10, 10, 300, 30, 0, TopShort, "", "", "", "400", "block")

nWide == Node("p", 0, 0, 400, 20, 0, TopShort, UrlNews, "", "", "400", "block")

nNarrow == Node("p", 0, 0, 275, 20, 0, TopShort, "", "", "", "400", "block")

nWeather == Node("h2", 0, 0, 275, 20, 0, TextWeather, "", "", "", "400", "block")

nReadMore == Node("a", 0, 200, 200, 20, 0, TextReadMore, UrlNews, "", "", "400", "inline")

nReadMore2 == Node("a", 60, 200, 200, 20, 0, TextReadMore, UrlSport, "", "", "400", "inline")

nOK == Node("a", 0, 200, 200, 20, 0, TextOK, UrlSport, "", "", "400", "inline")

nIcon == Node("li", 0, 240, 100, 20, 0, TextX, UrlLogo, "", "", "400", "list-item")

nImg == Node("img", 0, 0, 590, 300, 0, <<>>, "", ImgA, "", "400", "inline")

nSvg == Node("img", 0, 400, 200, 100, 0, <<>>, "", ImgSvg, "", "400", "inline")

nBg == Node("div", 0, 400, 400, 100, 0, TextBanner, UrlNews, "", ImgA, "400", "block")

NodePool == {nWide, nNarrow, nWeather, nReadMore, nReadMore2, nOK, nIcon, nImg,
             nSvg, nBg}

\* The sort key of snapshot_dom, src/server.py:387
SortKey(n) == <<n.z, n.y, n.x, n.h * n.w>>

KeyLeq(k1, k2) ==
    \/ k1[1] < k2[1]
    \/ k1[1] = k2[1] /\ k1[2] < k2[2]
    \/ k1[1] = k2[1] /\ k1[2] = k2[2] /\ k1[3] < k2[3]
    \/ k1[1] = k2[1] /\ k1[2] = k2[2] /\ k1[3] = k2[3] /\ k1[4] <= k2[4]

\* nodes is a possible result of the stable sort of line 387
IsPaintOrdered(nodes) ==
    \A i \in 1..(Len(nodes) - 1) : KeyLeq(SortKey(nodes[i]), SortKey(nodes[i + 1]))

-----------------------------------------------------------------------------
(* The render core of BrowserSession.load_url, src/server.py:552-618       *)

\* vp_w of line 552
ViewportW(nodes) ==
    LET edges == {nodes[i].x + nodes[i].w : i \in 1..Len(nodes)} \cup {MinViewportPx}
    IN  CHOOSE m \in edges : \A e \in edges : e <= m

Project_nofloor(n, W, vp_w, ra) ==
    [x |-> Trunc(n.x * W, vp_w),
     y |-> Trunc(n.y * W * ra, vp_w * 100),
     w |-> Trunc(n.w * W, vp_w),
     h |-> Trunc(n.h * W * ra, vp_w * 100)]

Project_toprow(n, W, vp_w, ra) ==
    [x |-> Trunc(n.x * W, vp_w),
     y |-> 0,
     w |-> Max(MinCols, Trunc(n.w * W, vp_w)),
     h |-> Max(MinRows, Trunc(n.h * W * ra, vp_w * 100))]

Project_roundup(n, W, vp_w, ra) ==
    [x |-> Trunc(n.x * W + vp_w - 1, vp_w),
     y |-> Trunc(n.y * W * ra, vp_w * 100),
     w |-> Max(MinCols, Trunc(n.w * W, vp_w)),
     h |-> Max(MinRows, Trunc(n.h * W * ra, vp_w * 100))]

\* Lines 563-566 with scale_x = W / vp_w and scale_y = scale_x * ra / 100
Project(n, W, vp_w, ra) ==
    [x |-> Trunc(n.x * W, vp_w),
     y |-> Trunc(n.y * W * ra, vp_w * 100),
     w |-> Max(MinCols, Trunc(n.w * W, vp_w)),
     h |-> Max(MinRows, Trunc(n.h * W * ra, vp_w * 100))]

\* Line 567
IsBold(n) == n.fw \in {"700", "800", "900", "bold"} \/ n.tag \in {"h1", "h2", "h3"}

should_draw_text_node_anyanchor(n) ==
    Strip(n.txt) # <<>> /\ n.tag \in {"h2", "p", "li", "a"}

should_draw_text_node_anydisp(n) ==
    LET txt == Strip(n.txt)
    IN  IF txt = <<>> THEN FALSE
        ELSE IF n.tag \in {"h1", "h2", "h3", "h4", "h5", "h6", "p", "li",
                           "figcaption", "td", "th"} THEN TRUE
        ELSE IF n.tag \in {"button", "label"} THEN TRUE
        ELSE IF n.tag = "a" THEN Len(txt) >= AnchorMinLen
        ELSE IF n.tag \in {"div", "span", "section", "article"}
             THEN Len(txt) >= BlockMinLen
        ELSE FALSE

\* BrowserSession._should_draw_text_node, lines 473-488
should_draw_text_node(n) ==
    LET txt == Strip(n.txt)
    IN  IF txt = <<>> THEN FALSE
        ELSE IF n.tag \in {"h1", "h2", "h3", "h4", "h5", "h6", "p", "li",
                           "figcaption", "td", "th"} THEN TRUE
        ELSE IF n.tag \in {"button", "label"} THEN TRUE
        ELSE IF n.tag = "a" THEN Len(txt) >= AnchorMinLen
        ELSE IF n.tag \in {"div", "span", "section", "article"}
             THEN IF n.disp = "inline" THEN FALSE ELSE Len(txt) >= BlockMinLen
        ELSE FALSE

\* BrowserSession._is_icon_link, lines 456-461
is_icon_link(href, text) ==
    IF HasImageExt(href) /\ HasIconKeyword(href)
    THEN text = <<>> \/ Len(text) <= 1
    ELSE FALSE

\* What _ascii_for returns: an art of h lines of w characters, or one line
\* of explanation (kind "note").
Art(w, h) == [kind |-> "art", why |-> "", w |-> w, h |-> h]

Note(why) == [kind |-> "note", why |-> why, w |-> 0, h |-> 1]

img_bytes_to_ascii_nomin(url, data, width, ra, have_pil) ==
    IF ~have_pil THEN Note("no_pil")
    ELSE IF data # "raster" THEN Note("conv_error")
    ELSE Art(width, Max(1, Trunc(ImgDims(url).h * width * ra, ImgDims(url).w * 100)))

\* img_bytes_to_ascii, lines 119-132.  data is what the fetch returned
\* ("raster" decodes, "corrupt" makes Image.open raise); ra is the
\* ROW_ASPECT current at the call (line 125).
img_bytes_to_ascii(url, data, width, ra, have_pil) ==
    IF ~have_pil THEN Note("no_pil")
    ELSE IF data # "raster" THEN Note("conv_error")
    ELSE LET w == Max(MinArtW, width)
             im == ImgDims(url)
         IN  Art(w, Max(1, Trunc(im.h * w * ra, im.w * 100)))

ascii_for_raising(url, ans, width, ra, have_pil, have_cairosvg) ==
    IF ans = "fetch_error" THEN [kind |-> "raise", why |-> "fetch_error", w |-> 0, h |-> 0]
    ELSE IF EndsWithSvg(url) /\ ~have_cairosvg THEN Note("svg_skipped")
    ELSE img_bytes_to_ascii(url, ans, width, ra, have_pil)

\* BrowserSession._ascii_for, lines 463-471.  ans is the answer of the
\* network to fetch_bytes: "raster", "corrupt" or "fetch_error" (it raises).
ascii_for(url, ans, width, ra, have_pil, have_cairosvg) ==
    IF ans = "fetch_error" THEN Note("fetch_error")
    ELSE IF EndsWithSvg(url) /\ ~have_cairosvg THEN Note("svg_skipped")
    ELSE img_bytes_to_ascii(url, ans, width, ra, have_pil)

\* TermCanvas.draw_text_block, lines 400-418: the canvas after the call
draw_text_block(canvas, top_row, left_col, width_cols, text, bold) ==
    IF width_cols <= 5 \/ text = <<>> THEN canvas
    ELSE Append(canvas, [op |-> "text", row |-> top_row, col |-> left_col,
                         w |-> width_cols, text |-> text, bold |-> bold,
                         art |-> Note("")])

\* TermCanvas.draw_ascii_image, lines 420-429
draw_ascii_image(canvas, top_row, left_col, ascii_art, max_w) ==
    Append(canvas, [op |-> "art", row |-> top_row, col |-> left_col,
                    w |-> max_w, text |-> <<>>, bold |-> FALSE,
                    art |-> ascii_art])

\* f"[IMG {idx}]"
ImgLabel(idx) == <<"[", "I", "M", "G", " ">> \o Str(idx) \o <<"]">>

\* f"{txt} [{idx}]"
WithIndex(txt, idx) == txt \o <<" ", "[">> \o Str(idx) \o <<"]">>

-----------------------------------------------------------------------------
(* The canvas cell by cell, src/server.py:391-432, the strings the image   *)
(* conversion returns, and the flattening of a page, lines 620-630.  Text  *)
(* is as snapshot_dom yields it (line 365): one line, words separated by   *)
(* single spaces, no hyphen.  Rows and columns count from 0 as in the      *)
(* code; lines[r + 1][c + 1] is the cell at row r, column c.               *)

ASCII_RAMP == <<"@", "%", "#", "*", "+", "=", "-", ":", ".", " ">>

\* Luminance 0..255 of the resized image at pixel k of im.getdata()
Pixel(k) == (37 * k + 11) % 256

\* ASCII_RAMP[int(p/255*(len(ASCII_RAMP)-1))], line 128
RampChar(p) == ASCII_RAMP[Trunc(p * (Len(ASCII_RAMP) - 1), 255) + 1]

RECURSIVE JoinLines(_)
\* "\n".join(lines) + "\n"
JoinLines(lines) ==
    IF lines = <<>> THEN <<"\n">>
    ELSE IF Len(lines) = 1 THEN Head(lines) \o <<"\n">>
    ELSE Head(lines) \o <<"\n">> \o JoinLines(Tail(lines))

\* The text of the one-line results of lines 121, 132, 468 and 471
NoteLine(why) ==
    IF why = "no_pil" THEN <<"(", "P", "i", "l", "l", "o", "w", " ", "n", "o", "t", " ", "i", "n", "s", "t", "a", "l", "l", "e", "d", ";", " ", "A", "S", "C", "I", "I", " ", "i", "m", "a", "g", "e", " ", "d", "i", "s", "a", "b", "l", "e", "d", ")">>
    ELSE IF why = "conv_error" THEN <<"(", "A", "S", "C", "I", "I", " ", "c", "o", "n", "v", "e", "r", "s", "i", "o", "n", " ", "e", "r", "r", "o", "r", ":", " ", "e", " ", "/", " ", "I", "f", " ", "W", "E", "B", "P", ",", " ", "e", "n", "s", "u", "r", "e", " ", "P", "i", "l", "l", "o", "w", " ", "h", "a", "s", " ", "W", "E", "B", "P", " ", "s", "u", "p", "p", "o", "r", "t", ")">>
    ELSE IF why = "svg_skipped" THEN <<"(", "S", "V", "G", " ", "i", "m", "a", "g", "e", " ", "s", "k", "i", "p", "p", "e", "d", ":", " ", "C", "a", "i", "r", "o", "S", "V", "G", " ", "n", "o", "t", " ", "a", "v", "a", "i", "l", "a", "b", "l", "e", ")", " ", "u">>
    ELSE <<"(", "I", "m", "a", "g", "e", " ", "f", "e", "t", "c", "h", " ", "e", "r", "r", "o", "r", ":", " ", "e", ")">>

\* The string _ascii_for returns for the result art: lines 126-130 for a
\* conversion (w * h ramp characters cut into lines of w), one line else
ArtString(art) ==
    IF art.kind = "art"
    THEN LET chars == [k \in 1..(art.w * art.h) |-> RampChar(Pixel(k - 1))]
             nlines == (Len(chars) + art.w - 1) \div art.w
             lines == [i \in 1..nlines |->
                          SubSeq(chars, (i - 1) * art.w + 1, Min(i * art.w, Len(chars)))]
         IN  JoinLines(lines)
    ELSE NoteLine(art.why) \o <<"\n">>

\* str.splitlines() of a string whose only line break is "\n"
SplitLines(s) ==
    LET nl == {i \in 1..Len(s) : s[i] = "\n"}
        ends == IF s # <<>> /\ s[Len(s)] # "\n" THEN nl \cup {Len(s) + 1} ELSE nl
        EndOf(k) == CHOOSE i \in ends : Cardinality({j \in ends : j < i}) = k - 1
    IN  [k \in 1..Cardinality(ends) |->
            SubSeq(s, (IF k = 1 THEN 1 ELSE EndOf(k - 1) + 1), EndOf(k) - 1)]

\* The words of a one-line, single-spaced text
Words(s) ==
    LET sp == {i \in 1..Len(s) : s[i] = " "} \cup {Len(s) + 1}
        EndOf(k) == CHOOSE i \in sp : Cardinality({j \in sp : j < i}) = k - 1
    IN  [k \in 1..Cardinality(sp) |->
            SubSeq(s, (IF k = 1 THEN 1 ELSE EndOf(k - 1) + 1), EndOf(k) - 1)]

RECURSIVE WrapWords(_, _, _)
\* The greedy fill of textwrap.wrap with break_long_words=False: cur is
\* the line being filled; a word longer than width gets a line of its own
WrapWords(words, width, cur) ==
    IF words = <<>> THEN (IF cur = <<>> THEN <<>> ELSE <<cur>>)
    ELSE IF cur = <<>> THEN WrapWords(Tail(words), width, Head(words))
    ELSE IF Len(cur) + 1 + Len(Head(words)) <= width
         THEN WrapWords(Tail(words), width, cur \o <<" ">> \o Head(words))
    ELSE <<cur>> \o WrapWords(Tail(words), width, Head(words))

\* Lines 402-408: the wrapped lines of text
Wrapped(text, width_cols) ==
    LET w == WrapWords(Words(RStrip(text)), width_cols, <<>>)
    IN  IF w = <<>> THEN << <<>> >> ELSE w

\* TermCanvas._ensure_rows, lines 396-398
ensure_rows(lines, rows, W) ==
    IF Len(lines) >= rows THEN lines
    ELSE lines \o [k \in 1..(rows - Len(lines)) |-> [c \in 1..W |-> " "]]

PutRow_keep(lines, r, left_col, s, W) ==
    LET l2 == ensure_rows(lines, r + 1, W)
    IN  [l2 EXCEPT ![r + 1] =
            [c \in 1..W |-> IF (c - 1 - left_col) \in 0..(Len(s) - 1) /\ @[c] = " "
                            THEN s[c - left_col] ELSE @[c]]]

PutRow_wide(lines, r, left_col, s, W) ==
    LET l2 == ensure_rows(lines, r + 1, W)
    IN  [l2 EXCEPT ![r + 1] =
            [c \in 1..Max(W, left_col + Len(s)) |->
                IF (c - 1 - left_col) \in 0..(Len(s) - 1) THEN s[c - left_col]
                ELSE IF c <= W THEN @[c] ELSE " "]]

\* Lines 411 and 414-417 (424 and 426-429): row r exists, and the
\* characters of s go to its cells left_col, left_col + 1, ... that lie
\* within 0..W-1
PutRow(lines, r, left_col, s, W) ==
    LET l2 == ensure_rows(lines, r + 1, W)
    IN  [l2 EXCEPT ![r + 1] =
            [c \in 1..W |-> IF (c - 1 - left_col) \in 0..(Len(s) - 1)
                            THEN s[c - left_col] ELSE @[c]]]

\* The loops of lines 410-418 and 423-429 over the strings rows: the rows
\* up to r + Len(rows) - 1 exist, and row r + k - 1 gets rows[k]
PutRows(lines, r, left_col, rows, W) ==
    IF rows = <<>> THEN lines
    ELSE LET l2 == ensure_rows(lines, r + Len(rows), W)
         IN  [k \in 1..Len(l2) |->
                 IF (k - 1 - r) \in 0..(Len(rows) - 1)
                 THEN PutRow(l2, k - 1, left_col, rows[k - r], W)[k]
                 ELSE l2[k]]

\* The strings a paint operation writes, one per row from its top row:
\* lines 402-413 for a text (wrapped, marked when bold, cut to the width),
\* lines 422-425 for an art (split, cut to max_w)
RowsOf(o) ==
    IF o.op = "text"
    THEN LET wrapped == Wrapped(o.text, o.w)
         IN  [k \in 1..Len(wrapped) |->
                 Take(IF o.bold THEN <<"*", "*">> \o wrapped[k] \o <<"*", "*">>
                      ELSE wrapped[k], o.w)]
    ELSE LET rows == SplitLines(ArtString(o.art))
         IN  [k \in 1..Len(rows) |-> Take(rows[k], o.w)]

RECURSIVE LinesAfter(_, _, _)
\* TermCanvas.lines after the first k paint operations of canvas
LinesAfter(canvas, k, W) ==
    IF k = 0 THEN <<>>
    ELSE PutRows(LinesAfter(canvas, k - 1, W), canvas[k].row, canvas[k].col,
                 RowsOf(canvas[k]), W)

canvas_render_raw(lines) == lines

\* TermCanvas.render, lines 431-432, as the list of its lines
canvas_render(lines) == [r \in 1..Len(lines) |-> RStrip(lines[r])]

RECURSIVE compress_blank(_, _)
\* compress_blank, lines 110-116, on a list of lines: prev tells whether
\* the line before was blank
compress_blank(lines, prev) ==
    IF lines = <<>> THEN <<>>
    ELSE LET blank == Strip(Head(lines)) = <<>>
         IN  IF blank /\ prev THEN compress_blank(Tail(lines), prev)
             ELSE <<Head(lines)>> \o compress_blank(Tail(lines), blank)

\* f"[{i}] <{href}>" (lines 625 and 629); the URL stands as one element
Listing(map) == [i \in 1..Len(map) |-> <<"[">> \o Str(i) \o <<"]", " ", "<", map[i], ">">>]

\* Lines 620-630: the lines of full_text for a page text t
Flatten(t) ==
    LET rows == canvas_render(LinesAfter(t.canvas, Len(t.canvas), t.W))
        body == (IF rows = <<>> THEN << <<>> >> ELSE rows)
                \o << <<"#", " ", t.url>> >>
                \o (IF t.links # <<>>
                    THEN << <<>>, <<"-", "-", " ", "L", "i", "n", "k", "s", " ", "-", "-">> >> \o Listing(t.links) ELSE <<>>)
                \o (IF t.images # <<>>
                    THEN << <<>>, <<"-", "-", " ", "I", "m", "a", "g", "e", "s", " ", "-", "-">> >> \o Listing(t.images) ELSE <<>>)
    IN  compress_blank(body, FALSE)

\* The accumulators of one render, lines 556-560.  marks and reads are
\* history: marks lists every index handed to a paint call with the URL it
\* stands for; reads lists the values of the module globals read by the
\* loop body, in order.
FreshAcc ==
    [canvas |-> <<>>, link_map |-> <<>>, image_map |-> <<>>,
     link_seen |-> {}, img_seen |-> {}, auto_img_count |-> 0,
     placed_text_rects |-> <<>>, marks |-> <<>>, reads |-> <<>>,
     raised |-> FALSE]

\* The process-wide values one pass of the loop body can read
Env(ra, aw, have_pil, have_cairosvg) ==
    [ra |-> ra, aw |-> aw, have_pil |-> have_pil, have_cairosvg |-> have_cairosvg]

RegistryIndex_last(map, url) == Len(map)

\* image_map.index(fullsrc) + 1, link_map.index(href) + 1 (lines 575, 590, 614)
RegistryIndex(map, url) == IndexOf(map, url)

ImageBlock_nobudget(acc, full, p, auto_image, env, ans) ==
    LET fresh == full \notin acc.img_seen
        image_map == IF fresh THEN Append(acc.image_map, full) ELSE acc.image_map
        idx == IndexOf(image_map, full)
        c1 == draw_text_block(acc.canvas, p.y, p.x, p.w, ImgLabel(idx), FALSE)
    IN  IF auto_image
        THEN [acc EXCEPT !.img_seen = acc.img_seen \cup {full},
                         !.image_map = image_map,
                         !.canvas = draw_ascii_image(c1, p.y + 1, p.x,
                                        ascii_for(full, ans, env.aw, env.ra,
                                                  env.have_pil, env.have_cairosvg),
                                        Min(p.w, env.aw)),
                         !.auto_img_count = acc.auto_img_count + 1]
        ELSE [acc EXCEPT !.img_seen = acc.img_seen \cup {full},
                         !.image_map = image_map,
                         !.canvas = c1]

ImageBlock_fresh(acc, full, p, auto_image, env, ans) ==
    LET fresh == full \notin acc.img_seen
        image_map == IF fresh THEN Append(acc.image_map, full) ELSE acc.image_map
        idx == RegistryIndex(image_map, full)
        c1 == draw_text_block(acc.canvas, p.y, p.x, p.w, ImgLabel(idx), FALSE)
        a1 == [acc EXCEPT !.img_seen = acc.img_seen \cup {full},
                          !.image_map = image_map,
                          !.canvas = c1,
                          !.marks = Append(acc.marks, [reg |-> "image", url |-> full, idx |-> idx])]
    IN  IF auto_image /\ acc.auto_img_count < AUTO_IMG_MAX /\ fresh
        THEN [a1 EXCEPT
                !.canvas = draw_ascii_image(c1, p.y + 1, p.x,
                                            ascii_for(full, ans, env.aw, env.ra,
                                                      env.have_pil, env.have_cairosvg),
                                            Min(p.w, env.aw)),
                !.auto_img_count = acc.auto_img_count + 1]
        ELSE a1

\* Lines 571-580 and 585-595: register the image, paint the placeholder
\* and, within the budget, the conversion one row below.
ImageBlock(acc, full, p, auto_image, env, ans) ==
    LET fresh == full \notin acc.img_seen
        image_map == IF fresh THEN Append(acc.image_map, full) ELSE acc.image_map
        idx == RegistryIndex(image_map, full)
        c1 == draw_text_block(acc.canvas, p.y, p.x, p.w, ImgLabel(idx), FALSE)
        a1 == [acc EXCEPT !.img_seen = acc.img_seen \cup {full},
                          !.image_map = image_map,
                          !.canvas = c1,
                          !.marks = Append(acc.marks, [reg |-> "image", url |-> full, idx |-> idx])]
    IN  IF auto_image /\ acc.auto_img_count < AUTO_IMG_MAX
        THEN LET ascii_art == ascii_for(full, ans, env.aw, env.ra,
                                        env.have_pil, env.have_cairosvg)
             IN  IF ascii_art.kind = "raise"
                 THEN [a1 EXCEPT !.raised = TRUE]
                 ELSE [a1 EXCEPT
                         !.canvas = draw_ascii_image(c1, p.y + 1, p.x, ascii_art,
                                                     Min(p.w, env.aw)),
                         !.auto_img_count = acc.auto_img_count + 1,
                         !.reads = acc.reads
                                    \o <<[name |-> "ASCII_IMG_W", val |-> env.aw]>>
                                    \o (IF ascii_art.kind = "art"
                                        THEN <<[name |-> "ROW_ASPECT", val |-> env.ra]>>
                                        ELSE <<>>)]
        ELSE a1

IsDuplicate_last(placed, p, snippet) ==
    /\ placed # <<>>
    /\ ExceedsThreshold(rect_iou(p, placed[Len(placed)].rect))
    /\ (IsSubstr(snippet, placed[Len(placed)].sn) \/ IsSubstr(placed[Len(placed)].sn, snippet))

IsDuplicate_geometry(placed, p, snippet) ==
    \E k \in 1..Len(placed) : ExceedsThreshold(rect_iou(p, placed[k].rect))

IsDuplicate_content(placed, p, snippet) ==
    \E k \in 1..Len(placed) :
        IsSubstr(snippet, placed[k].sn) \/ IsSubstr(placed[k].sn, snippet)

\* Lines 601-605: some placed record overlaps p by more than the threshold
\* and one prefix holds the other
IsDuplicate(placed, p, snippet) ==
    \E k \in 1..Len(placed) :
        /\ ExceedsThreshold(rect_iou(p, placed[k].rect))
        /\ (IsSubstr(snippet, placed[k].sn) \/ IsSubstr(placed[k].sn, snippet))

\* Lines 598-618
TextBlock(acc, n, p, filter_icons) ==
    IF n.txt # <<>> /\ should_draw_text_node(n)
    THEN LET snippet == Take(n.txt, SnippetLen)
         IN  IF IsDuplicate(acc.placed_text_rects, p, snippet) THEN acc
             ELSE LET linked == n.href # "" /\ ~(filter_icons /\ is_icon_link(n.href, n.txt))
                      fresh == n.href \notin acc.link_seen
                      link_map == IF linked /\ fresh THEN Append(acc.link_map, n.href)
                                  ELSE acc.link_map
                      idx == IF linked THEN RegistryIndex(link_map, n.href) ELSE 0
                      txt == IF linked THEN WithIndex(n.txt, idx) ELSE n.txt
                  IN  [acc EXCEPT
                         !.link_seen = IF linked THEN acc.link_seen \cup {n.href}
                                       ELSE acc.link_seen,
                         !.link_map = link_map,
                         !.marks = IF linked
                                   THEN Append(acc.marks, [reg |-> "link", url |-> n.href, idx |-> idx])
                                   ELSE acc.marks,
                         !.canvas = draw_text_block(acc.canvas, p.y, p.x, p.w, txt, IsBold(n)),
                         !.placed_text_rects =
                             Append(acc.placed_text_rects, [rect |-> p, sn |-> snippet])]
    ELSE acc

\* One pass of the loop body, lines 562-618, for node n.  fr holds what
\* load_url computed before the loop (W, vp_w and the ROW_ASPECT folded
\* into scale_y); sess holds the session's flags.
ProcessNode(acc, n, fr, sess, env, ans) ==
    LET p == Project(n, fr.W, fr.vp_w, fr.ra)
    IN  IF n.tag = "img" /\ n.src # ""
        THEN ImageBlock(acc, n.src, p, sess.auto_image, env, ans)
        ELSE LET a1 == IF n.bg # ""
                       THEN ImageBlock(acc, n.bg, p, sess.auto_image, env, ans)
                       ELSE acc
             IN  IF a1.raised THEN a1 ELSE TextBlock(a1, n, p, sess.filter_icons)

-----------------------------------------------------------------------------
(* State: sessions, load_url activations, connections                      *)

Conns == {"A", "B"}

\* BrowserSession.__init__, lines 436-454 (future, last_query and the
\* search provider fields are written but never read by the operations
\* modelled here)
NewSession ==
    [width |-> TERM_WIDTH, js_mode |-> TRUE, auto_image |-> TRUE,
     filter_icons |-> TRUE, current_url |-> "", history |-> <<>>,
     full_text |-> [kind |-> "none"], links |-> <<>>, images |-> <<>>,
     last_results |-> <<>>]

\* No load_url activation yet
NoFrame ==
    [phase |-> "none", path |-> "", via |-> "", url |-> "", nodes |-> <<>>, i |-> 0,
     W |-> 0, vp_w |-> 0, ra |-> 0, aw0 |-> 0, auto_image |-> FALSE,
     filter_icons |-> FALSE, acc |-> FreshAcc, answers |-> <<>>]

\* Lines 551-560: what load_url holds when it enters the loop.  aw0,
\* auto_image and filter_icons are history: the ASCII_IMG_W and the
\* session flags current at that moment.
StartFrame_keep(prev, via, url, nodes, sess, ra, aw) ==
    [phase |-> "loop", path |-> "layout", via |-> via, url |-> url, nodes |-> nodes,
     i |-> 1, W |-> sess.width, vp_w |-> ViewportW(nodes), ra |-> ra, aw0 |-> aw,
     auto_image |-> sess.auto_image, filter_icons |-> sess.filter_icons,
     acc |-> [FreshAcc EXCEPT !.link_map = prev.acc.link_map,
                              !.link_seen = prev.acc.link_seen],
     answers |-> <<>>]

StartFrame(prev, via, url, nodes, sess, ra, aw) ==
    [phase |-> "loop", path |-> "layout", via |-> via, url |-> url, nodes |-> nodes,
     i |-> 1, W |-> sess.width, vp_w |-> ViewportW(nodes), ra |-> ra, aw0 |-> aw,
     auto_image |-> sess.auto_image, filter_icons |-> sess.filter_icons,
     acc |-> FreshAcc, answers |-> <<>>]

\* What the network can answer to fetch_bytes
Answers == {"raster", "corrupt", "fetch_error"}

\* The loop body fetches for node n exactly when lines 577 / 592 let it
WillConvert(acc, n, auto_image) ==
    /\ (n.tag = "img" /\ n.src # "") \/ n.bg # ""
    /\ auto_image
    /\ acc.auto_img_count < AUTO_IMG_MAX

\* Lines 620-630: the ingredients of full_text
PageText(url, W, acc) ==
    [kind |-> "render", url |-> url, W |-> W, canvas |-> acc.canvas,
     links |-> acc.link_map, images |-> acc.image_map]

\* Line 631
LinkList(link_map) == [k \in 1..Len(link_map) |-> [text |-> <<>>, href |-> link_map[k]]]

\* Line 632
ImageList(image_map) == [k \in 1..Len(image_map) |-> [src |-> image_map[k], alt |-> <<>>]]

\* One pass of the loop of line 562 on connection c
RenderNode(c) ==
    /\ conn[c] = "loading"
    /\ R[c].phase = "loop"
    /\ R[c].i <= Len(R[c].nodes)
    /\ LET fr == R[c]
           n == fr.nodes[fr.i]
           env == Env(ROW_ASPECT, ASCII_IMG_W, caps.pil, caps.cairosvg)
       IN  \E ans \in (IF WillConvert(fr.acc, n, S[c].auto_image) THEN Answers ELSE {"none"}) :
             LET acc2 == ProcessNode(fr.acc, n, fr, S[c], env, ans)
             IN  IF acc2.raised
                 THEN /\ R' = [R EXCEPT ![c].acc = acc2, ![c].phase = "escaped",
                                        ![c].answers = Append(fr.answers, ans)]
                      /\ conn' = [conn EXCEPT ![c] = IF fr.via = "follow" THEN "serving"
                                                     ELSE "crashed"]
                 ELSE /\ R' = [R EXCEPT ![c].acc = acc2, ![c].i = fr.i + 1,
                                        ![c].answers = Append(fr.answers, ans)]
                      /\ conn' = conn
    /\ UNCHANGED <<ROW_ASPECT, ASCII_IMG_W, caps, S, ncmd, fn>>

RenderFinish_append(c) ==
    /\ conn[c] = "loading"
    /\ R[c].phase = "loop"
    /\ R[c].i = Len(R[c].nodes) + 1
    /\ S' = [S EXCEPT ![c].full_text = PageText(S[c].current_url, R[c].W, R[c].acc),
                      ![c].links = S[c].links \o LinkList(R[c].acc.link_map),
                      ![c].images = S[c].images \o ImageList(R[c].acc.image_map)]
    /\ R' = [R EXCEPT ![c].phase = "returned"]
    /\ conn' = [conn EXCEPT ![c] = "serving"]
    /\ UNCHANGED <<ROW_ASPECT, ASCII_IMG_W, caps, ncmd, fn>>

\* Lines 620-633: the loop is over, publish and return to the command loop
RenderFinish(c) ==
    /\ conn[c] = "loading"
    /\ R[c].phase = "loop"
    /\ R[c].i = Len(R[c].nodes) + 1
    /\ S' = [S EXCEPT ![c].full_text = PageText(S[c].current_url, R[c].W, R[c].acc),
                      ![c].links = LinkList(R[c].acc.link_map),
                      ![c].images = ImageList(R[c].acc.image_map)]
    /\ R' = [R EXCEPT ![c].phase = "returned"]
    /\ conn' = [conn EXCEPT ![c] = "serving"]
    /\ UNCHANGED <<ROW_ASPECT, ASCII_IMG_W, caps, ncmd, fn>>

NoFn == [op |-> "none"]

-----------------------------------------------------------------------------
(* SpecRender: one render of any paint-ordered snapshot over the node      *)
(* pool, under any session flags, terminal width and decoding capability.  *)

MaxNodes == 3

Snapshots ==
    {s \in UNION {[1..k -> NodePool] : k \in 1..MaxNodes} : IsPaintOrdered(s)}

RenderWidths == {60, TERM_WIDTH}

InitRender ==
    /\ ROW_ASPECT = DefaultRowAspect
    /\ ASCII_IMG_W = DefaultAsciiImgW
    /\ caps \in [pw : {TRUE}, pil : BOOLEAN, cairosvg : BOOLEAN]
    /\ \E W \in RenderWidths, ai \in BOOLEAN, fi \in BOOLEAN, nodes \in Snapshots :
         /\ S = [c \in Conns |->
                   IF c = "A"
                   THEN [NewSession EXCEPT !.width = W, !.auto_image = ai,
                                           !.filter_icons = fi, !.current_url = UrlHome]
                   ELSE NewSession]
         /\ R = [c \in Conns |->
                   IF c = "A"
                   THEN StartFrame(NoFrame, "goto", UrlHome, nodes, S[c],
                                   ROW_ASPECT, ASCII_IMG_W)
                   ELSE NoFrame]
    /\ conn = [c \in Conns |-> IF c = "A" THEN "loading" ELSE "serving"]
    /\ ncmd = 0
    /\ fn = NoFn

NextRender == \E c \in Conns : RenderNode(c) \/ RenderFinish(c)

SpecRender == InitRender /\ [][NextRender]_vars

-----------------------------------------------------------------------------
(* SpecC3: the render of the duplicate-pair snapshot of the specification  *)
(* (a container and its descendant, in the paint order of line 387) at     *)
(* every terminal width a session can have.                                *)

InitC3 ==
    /\ ROW_ASPECT = DefaultRowAspect
    /\ ASCII_IMG_W = DefaultAsciiImgW
    /\ caps = [pw |-> TRUE, pil |-> TRUE, cairosvg |-> TRUE]
    /\ \E W \in MinWidth..MaxWidth :
         /\ S = [c \in Conns |->
                   IF c = "A"
                   THEN [NewSession EXCEPT !.width = W, !.current_url = UrlHome]
                   ELSE NewSession]
         /\ R = [c \in Conns |->
                   IF c = "A"
                   THEN StartFrame(NoFrame, "goto", UrlHome, <<nDescendant, nContainer>>,
                                   S[c], ROW_ASPECT, ASCII_IMG_W)
                   ELSE NoFrame]
    /\ conn = [c \in Conns |-> IF c = "A" THEN "loading" ELSE "serving"]
    /\ ncmd = 0
    /\ fn = NoFn

SpecC3 == InitC3 /\ [][NextRender]_vars

-----------------------------------------------------------------------------
(* SpecHeadings: the render, at 80 columns, of a snapshot of two heading   *)
(* nodes one above the other, for every heading tag and font weight.       *)

HeadingTags == {"h1", "h2", "h3", "h4", "h5", "h6"}

\* A heading node 400 x 40 px at the left edge, y px down the page
Heading(tag, y, txt, fw) == Node(tag, 0, y, 400, 40, 0, txt, "", "", "", fw, "block")

InitHeadings ==
    /\ ROW_ASPECT \in {DefaultRowAspect, PresetRowAspect}
    /\ ASCII_IMG_W = DefaultAsciiImgW
    /\ caps = [pw |-> TRUE, pil |-> TRUE, cairosvg |-> TRUE]
    /\ \E t1 \in HeadingTags, t2 \in HeadingTags, fw \in {"400", "700"} :
         /\ S = [c \in Conns |->
                   IF c = "A"
                   THEN [NewSession EXCEPT !.width = 80, !.current_url = UrlHome]
                   ELSE NewSession]
         /\ R = [c \in Conns |->
                   IF c = "A"
                   THEN StartFrame(NoFrame, "goto", UrlHome,
                                   <<Heading(t1, 0, TextBreaking, fw),
                                     Heading(t2, 200, TextWeather, fw)>>,
                                   S[c], ROW_ASPECT, ASCII_IMG_W)
                   ELSE NoFrame]
    /\ conn = [c \in Conns |-> IF c = "A" THEN "loading" ELSE "serving"]
    /\ ncmd = 0
    /\ fn = NoFn

SpecHeadings == InitHeadings /\ [][NextRender]_vars

-----------------------------------------------------------------------------
(* SpecImages: one render of a snapshot that holds up to MaxImgs nodes,    *)
(* most of them images, the same element possibly reported more than once  *)
(* (snapshot_dom collects the page once per scroll position).              *)

MaxImgs == 5

ImagePool == {nImg, nReadMore, nSvg, nBg}

ImageSnapshots ==
    {s \in UNION {[1..k -> ImagePool] : k \in 1..MaxImgs} : IsPaintOrdered(s)}

InitImages ==
    /\ ROW_ASPECT = DefaultRowAspect
    /\ ASCII_IMG_W = DefaultAsciiImgW
    /\ caps = [pw |-> TRUE, pil |-> TRUE, cairosvg |-> TRUE]
    /\ \E W \in RenderWidths, ai \in BOOLEAN, nodes \in ImageSnapshots :
         /\ S = [c \in Conns |->
                   IF c = "A"
                   THEN [NewSession EXCEPT !.width = W, !.auto_image = ai,
                                           !.current_url = UrlHome]
                   ELSE NewSession]
         /\ R = [c \in Conns |->
                   IF c = "A"
                   THEN StartFrame(NoFrame, "goto", UrlHome, nodes, S[c],
                                   ROW_ASPECT, ASCII_IMG_W)
                   ELSE NoFrame]
    /\ conn = [c \in Conns |-> IF c = "A" THEN "loading" ELSE "serving"]
    /\ ncmd = 0
    /\ fn = NoFn

SpecImages == InitImages /\ [][NextRender]_vars

-----------------------------------------------------------------------------
(* SpecFn: rect_iou, the projection, the image conversion and the          *)
(* eligibility predicate applied to inputs drawn from bounded sets,        *)
(* degenerate rectangles included.                                         *)

MaxCoord == 1

MaxSide == 2

IouRects == [x : -1..MaxCoord, y : -1..MaxCoord, w : 0..MaxSide, h : 0..MaxSide]

PxValues == {-300, 0, 7, 650, 1500}

CodecWidths == {-3, 0, 19, 20, 21, 60}

PxRects == [x : PxValues, y : PxValues, w : PxValues, h : PxValues]

\* The tags of the default selector (lines 55-58), and label
AllTags ==
    {"header", "nav", "main", "article", "section", "aside", "footer", "div", "figure",
     "figcaption", "h1", "h2", "h3", "h4", "h5", "h6", "p", "ul", "ol", "li", "a",
     "button", "input", "textarea", "select", "table", "th", "td", "span", "img", "label"}

\* getComputedStyle(el).display, line 373
DisplayModes == {"inline", "block", "inline-block"}

\* innerText of an element after line 365: 0, 1, 2, 29, 30 and 31 characters
EligTexts == {<<>>, TextX, TextOK, Take(TopLong, 29), Take(TopLong, 30), TopLong}

InitFn ==
    /\ ROW_ASPECT = DefaultRowAspect
    /\ ASCII_IMG_W = DefaultAsciiImgW
    /\ caps = [pw |-> TRUE, pil |-> TRUE, cairosvg |-> TRUE]
    /\ S = [c \in Conns |-> NewSession]
    /\ R = [c \in Conns |-> NoFrame]
    /\ conn = [c \in Conns |-> "serving"]
    /\ ncmd = 0
    /\ \/ \E a \in IouRects, b \in IouRects : fn = [op |-> "iou_in", a |-> a, b |-> b]
       \/ \E url \in {ImgA, ImgSvg}, width \in CodecWidths,
             ra \in {PresetRowAspect, DefaultRowAspect} :
            fn = [op |-> "codec_in", url |-> url, width |-> width, ra |-> ra]
       \/ \E tag \in AllTags, disp \in DisplayModes, txt \in EligTexts :
            fn = [op |-> "elig_in",
                  n |-> Node(tag, 0, 0, 400, 20, 0, txt, "", "", "", "400", disp)]
       \/ \E n \in PxRects, W \in {MinWidth, TERM_WIDTH, MaxWidth}, wider \in {0, 800},
             ra \in {50, DefaultRowAspect} :
            fn = [op |-> "proj_in", n |-> n, W |-> W,
                  vp_w |-> Max(MinViewportPx, n.x + n.w) + wider, ra |-> ra]

ApplyIou ==
    /\ fn.op = "iou_in"
    /\ fn' = [op |-> "iou_out", a |-> fn.a, b |-> fn.b,
              out |-> rect_iou(fn.a, fn.b), rev |-> rect_iou(fn.b, fn.a)]
    /\ UNCHANGED <<ROW_ASPECT, ASCII_IMG_W, caps, S, R, conn, ncmd>>

ApplyProject ==
    /\ fn.op = "proj_in"
    /\ fn' = [op |-> "proj_out", n |-> fn.n, W |-> fn.W, vp_w |-> fn.vp_w, ra |-> fn.ra,
              out |-> Project(fn.n, fn.W, fn.vp_w, fn.ra)]
    /\ UNCHANGED <<ROW_ASPECT, ASCII_IMG_W, caps, S, R, conn, ncmd>>

\* img_bytes_to_ascii on decodable bytes, with Pillow present
ApplyCodec ==
    /\ fn.op = "codec_in"
    /\ fn' = [op |-> "codec_out", url |-> fn.url, width |-> fn.width, ra |-> fn.ra,
              out |-> ArtString(img_bytes_to_ascii(fn.url, "raster", fn.width, fn.ra, TRUE))]
    /\ UNCHANGED <<ROW_ASPECT, ASCII_IMG_W, caps, S, R, conn, ncmd>>

\* _should_draw_text_node on a node of the snapshot
ApplyEligible ==
    /\ fn.op = "elig_in"
    /\ fn' = [op |-> "elig_out", n |-> fn.n, out |-> should_draw_text_node(fn.n)]
    /\ UNCHANGED <<ROW_ASPECT, ASCII_IMG_W, caps, S, R, conn, ncmd>>

NextFn == ApplyIou \/ ApplyProject \/ ApplyCodec \/ ApplyEligible

SpecFn == InitFn /\ [][NextFn]_vars

-----------------------------------------------------------------------------
(* Spec: the command loops of the connections, one handler thread each,    *)
(* over the shared module globals.  A handler reads a command line, runs   *)
(* it and reads the next one; a page load that reaches the render loop     *)
(* runs it pass by pass, and the other threads run in between.             *)

MaxCmds == 2

\* The nodes snapshot_dom returns for a URL, in the order of line 387;
\* for any other URL the page script finds no node.
Web(url) ==
    IF url = UrlHome THEN <<nImg, nReadMore, nReadMore2>>
    ELSE IF url = UrlNews THEN <<nWeather, nOK>>
    ELSE <<>>

\* What the plain GET of line 492 finds at a URL: the text of the document,
\* its <a> elements and the src of its <img> elements, in document order
HtmlOf(url) ==
    IF url = UrlHome
    THEN [text |-> TextBanner,
          anchors |-> <<[href |-> UrlNews, text |-> TextReadMore],
                        [href |-> UrlSport, text |-> TextReadMore],
                        [href |-> UrlNews, text |-> TextOK]>>,
          imgs |-> <<ImgA, ImgA>>]
    ELSE IF url = UrlNews
    THEN [text |-> TextWeather,
          anchors |-> <<[href |-> UrlSport, text |-> TextOK]>>,
          imgs |-> <<>>]
    ELSE [text |-> TextOK,
          anchors |-> <<[href |-> UrlLogo, text |-> TextX],
                        [href |-> UrlHome, text |-> TextReadMore]>>,
          imgs |-> <<>>]

RECURSIVE FallbackImgs(_, _)
\* Lines 503-508: the sources of the first k <img> elements, without repeats
FallbackImgs(srcs, k) ==
    IF k = 0 THEN <<>>
    ELSE LET imgs == FallbackImgs(srcs, k - 1)
         IN  IF srcs[k] = "" \/ srcs[k] \in Range(imgs) THEN imgs
             ELSE Append(imgs, srcs[k])

RECURSIVE FallbackLinks(_, _, _)
\* Lines 509-517: the hrefs of the first k <a> elements, icon links left
\* out under the filter, without repeats
FallbackLinks(anchors, k, filter_icons) ==
    IF k = 0 THEN <<>>
    ELSE LET links == FallbackLinks(anchors, k - 1, filter_icons)
             a == anchors[k]
         IN  IF a.href = "" THEN links
             ELSE IF filter_icons /\ is_icon_link(a.href, a.text) THEN links
             ELSE IF a.href \in Range(links) THEN links
             ELSE Append(links, a.href)

\* Lines 519-531: the ingredients of the text of the fallback path
FallbackText(url, doc, links, imgs, arts) ==
    [kind |-> "fallback", url |-> url, text |-> doc.text, links |-> links,
     images |-> imgs, arts |-> arts]

\* The load_url activation that went through _render_fallback_url, with
\* the lists links and imgs it built (lines 502-517)
FallbackFrame(phase, via, url, links, imgs) ==
    [NoFrame EXCEPT !.phase = phase, !.path = "fallback", !.via = via, !.url = url,
                    !.acc = [FreshAcc EXCEPT !.link_map = links, !.image_map = imgs]]

\* Where the handler thread stands once an exception has left load_url:
\* "follow" catches it (lines 864-868); the numeric shortcut, goto and
\* reload do not (lines 846-856, 871-876) and it leaves handle().
AfterException(via) == IF via = "follow" THEN "serving" ELSE "crashed"

\* BrowserSession._render_fallback_url, lines 490-535, called by load_url
\* on connection c; hist is self.history after line 540.
render_fallback_url(c, via, url, hist) ==
    \E get \in {"raises", "ok"} :
        IF get = "raises"
        THEN /\ S' = [S EXCEPT ![c].history = hist]
             /\ R' = [R EXCEPT ![c] = FallbackFrame("escaped", via, url, <<>>, <<>>)]
             /\ conn' = [conn EXCEPT ![c] = AfterException(via)]
        ELSE LET doc == HtmlOf(url)
                 imgs == FallbackImgs(doc.imgs, Len(doc.imgs))
                 links == FallbackLinks(doc.anchors, Len(doc.anchors), S[c].filter_icons)
                 narts == IF S[c].auto_image THEN Min(Len(imgs), AUTO_IMG_MAX) ELSE 0
             IN  \E answers \in [1..narts -> Answers] :
                   /\ S' = [S EXCEPT
                              ![c].history = hist,
                              ![c].current_url = url,
                              ![c].full_text =
                                  FallbackText(url, doc, links, imgs,
                                      [k \in 1..narts |->
                                          ascii_for(imgs[k], answers[k], ASCII_IMG_W,
                                                    ROW_ASPECT, caps.pil, caps.cairosvg)]),
                              ![c].links = LinkList(links),
                              ![c].images = ImageList(imgs)]
                   /\ R' = [R EXCEPT ![c] = FallbackFrame("returned", via, url, links, imgs)]
                   /\ conn' = conn

\* BrowserSession.load_url, lines 537-560 and 636, called by the handler of
\* connection c: up to the first pass of the render loop, or through the
\* fallback path to its end.
load_url(c, via, url) ==
    LET hist == IF S[c].current_url # "" THEN Append(S[c].history, S[c].current_url)
                ELSE S[c].history
    IN  IF S[c].js_mode /\ caps.pw
        THEN \E snap \in {"raises", "nodes"} :
               IF snap = "nodes" /\ Web(url) # <<>>
               THEN /\ S' = [S EXCEPT ![c].history = hist, ![c].current_url = url]
                    /\ R' = [R EXCEPT ![c] = StartFrame(R[c], via, url, Web(url), S[c],
                                                        ROW_ASPECT, ASCII_IMG_W)]
                    /\ conn' = [conn EXCEPT ![c] = "loading"]
               ELSE render_fallback_url(c, via, url, hist)
        ELSE render_fallback_url(c, via, url, hist)

\* Line 757: the handler of c reads one more command line
ReadsCommand(c) ==
    /\ conn[c] = "serving"
    /\ ncmd < MaxCmds
    /\ ncmd' = ncmd + 1

\* exit / quit / q, line 764
CmdExit(c) ==
    /\ ReadsCommand(c)
    /\ conn' = [conn EXCEPT ![c] = "closed"]
    /\ UNCHANGED <<ROW_ASPECT, ASCII_IMG_W, caps, S, R, fn>>

\* js on|off, lines 775-781
CmdJs(c) ==
    /\ ReadsCommand(c)
    /\ \E on \in BOOLEAN : S' = [S EXCEPT ![c].js_mode = on]
    /\ UNCHANGED <<ROW_ASPECT, ASCII_IMG_W, caps, R, conn, fn>>

WidthInputs == {40, 250}

CmdWidth_noclamp(c) ==
    /\ ReadsCommand(c)
    /\ \E n \in WidthInputs : S' = [S EXCEPT ![c].width = n]
    /\ UNCHANGED <<ROW_ASPECT, ASCII_IMG_W, caps, R, conn, fn>>

\* width NN, lines 798-802
CmdWidth(c) ==
    /\ ReadsCommand(c)
    /\ \E n \in WidthInputs : S' = [S EXCEPT ![c].width = Max(MinWidth, Min(MaxWidth, n))]
    /\ UNCHANGED <<ROW_ASPECT, ASCII_IMG_W, caps, R, conn, fn>>

\* linkfilter on|off, lines 803-804
CmdLinkfilter(c) ==
    /\ ReadsCommand(c)
    /\ \E on \in BOOLEAN : S' = [S EXCEPT ![c].filter_icons = on]
    /\ UNCHANGED <<ROW_ASPECT, ASCII_IMG_W, caps, R, conn, fn>>

\* images on|off, lines 805-806
CmdImages(c) ==
    /\ ReadsCommand(c)
    /\ \E on \in BOOLEAN : S' = [S EXCEPT ![c].auto_image = on]
    /\ UNCHANGED <<ROW_ASPECT, ASCII_IMG_W, caps, R, conn, fn>>

ImgWidthInputs == {10, 250}

\* img width NN, lines 809-816: writes the module global
CmdImgWidth(c) ==
    /\ ReadsCommand(c)
    /\ \E n \in ImgWidthInputs : ASCII_IMG_W' = Max(MinImgW, Min(MaxImgW, n))
    /\ UNCHANGED <<ROW_ASPECT, caps, S, R, conn, fn>>

\* resolution 640x480 | 80x30, lines 819-831: writes the session's width
\* and both module globals
CmdResolution(c) ==
    /\ ReadsCommand(c)
    /\ S' = [S EXCEPT ![c].width = PresetWidth]
    /\ ROW_ASPECT' = PresetRowAspect
    /\ ASCII_IMG_W' = PresetAsciiImgW
    /\ UNCHANGED <<caps, R, conn, fn>>

\* A digits-only line, lines 846-856 (no search has run: last_results is
\* empty, the number names a link of the current page)
CmdNumber(c) ==
    /\ ReadsCommand(c)
    /\ \E n \in 1..Len(S[c].links) : load_url(c, "number", S[c].links[n].href)
    /\ UNCHANGED <<ROW_ASPECT, ASCII_IMG_W, caps, fn>>

\* follow N, lines 864-868, through open_link (lines 643-646)
CmdFollow(c) ==
    /\ ReadsCommand(c)
    /\ \E n \in 1..Len(S[c].links) : load_url(c, "follow", S[c].links[n].href)
    /\ UNCHANGED <<ROW_ASPECT, ASCII_IMG_W, caps, fn>>

GotoInputs == {UrlHome, UrlNews}

\* goto <url>, lines 871-872
CmdGoto(c) ==
    /\ ReadsCommand(c)
    /\ \E url \in GotoInputs : load_url(c, "goto", url)
    /\ UNCHANGED <<ROW_ASPECT, ASCII_IMG_W, caps, fn>>

\* reload, lines 873-876
CmdReload(c) ==
    /\ ReadsCommand(c)
    /\ S[c].current_url # ""
    /\ load_url(c, "reload", S[c].current_url)
    /\ UNCHANGED <<ROW_ASPECT, ASCII_IMG_W, caps, fn>>

Init ==
    /\ ROW_ASPECT = DefaultRowAspect
    /\ ASCII_IMG_W = DefaultAsciiImgW
    /\ caps \in [pw : BOOLEAN, pil : {TRUE}, cairosvg : {TRUE}]
    /\ S = [c \in Conns |-> NewSession]
    /\ R = [c \in Conns |-> NoFrame]
    /\ conn = [c \in Conns |-> "serving"]
    /\ ncmd = 0
    /\ fn = NoFn

Next ==
    \E c \in Conns :
        \/ CmdExit(c)
        \/ CmdJs(c)
        \/ CmdWidth(c)
        \/ CmdLinkfilter(c)
        \/ CmdImages(c)
        \/ CmdImgWidth(c)
        \/ CmdResolution(c)
        \/ CmdNumber(c)
        \/ CmdFollow(c)
        \/ CmdGoto(c)
        \/ CmdReload(c)
        \/ RenderNode(c)
        \/ RenderFinish(c)

Spec == Init /\ [][Next]_vars

-----------------------------------------------------------------------------
(* SpecCanvas: one TermCanvas and up to MaxCalls calls of draw_text_block  *)
(* and draw_ascii_image on it, some of them over the same cells and some   *)
(* across its right edge.  fn.calls lists the calls that passed the guard  *)
(* of line 401, fn.lines is TermCanvas.lines.                              *)

MaxCalls == 2

CanvasCols == {0, 56}

CanvasRows == {0, 1}

CanvasTexts == {WithIndex(TextReadMore, 1), TextBanner}

CanvasArts == {Art(MinArtW, 2), Note("fetch_error")}

InitCanvas ==
    /\ ROW_ASPECT = DefaultRowAspect
    /\ ASCII_IMG_W = DefaultAsciiImgW
    /\ caps = [pw |-> TRUE, pil |-> TRUE, cairosvg |-> TRUE]
    /\ S = [c \in Conns |-> NewSession]
    /\ R = [c \in Conns |-> NoFrame]
    /\ conn = [c \in Conns |-> "serving"]
    /\ ncmd = 0
    /\ fn = [op |-> "canvas", W |-> MinWidth, calls |-> <<>>, lines |-> <<>>]

\* The canvas after one more call: calls2 is the list of calls after it
AfterCall(calls2) ==
    /\ fn' = [fn EXCEPT
                !.calls = calls2,
                !.lines = IF Len(calls2) = Len(fn.calls) THEN fn.lines
                          ELSE PutRows(fn.lines, calls2[Len(calls2)].row,
                                       calls2[Len(calls2)].col,
                                       RowsOf(calls2[Len(calls2)]), fn.W)]
    /\ UNCHANGED <<ROW_ASPECT, ASCII_IMG_W, caps, S, R, conn, ncmd>>

\* TermCanvas.draw_text_block, lines 400-418
DrawText ==
    /\ fn.op = "canvas"
    /\ Len(fn.calls) < MaxCalls
    /\ \E row \in CanvasRows, col \in CanvasCols, w \in {5, 13}, text \in CanvasTexts,
          bold \in BOOLEAN :
         AfterCall(draw_text_block(fn.calls, row, col, w, text, bold))

\* TermCanvas.draw_ascii_image, lines 420-429
DrawArt ==
    /\ fn.op = "canvas"
    /\ Len(fn.calls) < MaxCalls
    /\ \E row \in CanvasRows, col \in CanvasCols, art \in CanvasArts :
         AfterCall(draw_ascii_image(fn.calls, row, col, art, 6))

NextCanvas == DrawText \/ DrawArt

SpecCanvas == InitCanvas /\ [][NextCanvas]_vars

-----------------------------------------------------------------------------
(* SpecOrder: snapshot_dom's ordering of the nodes the page script         *)
(* collected (lines 384-387) followed by the render of the ordered list.   *)
(* fn.nodes is the list of line 386 before the sort: elements in document  *)
(* order, chunk after chunk.  The session has images off: an image node   *)
(* paints its placeholder only.                                            *)

MaxCapture == 3

nFront == Node("h2", 0, 0, 275, 20, 1, TextBreaking, "", "", "", "400", "block")

nRight == Node("p", 60, 10, 200, 20, 0, TextReadMore, UrlSport, "", "", "400", "block")

OrderPool == {nWeather, nNarrow, nWide, nFront, nRight, nImg}

Captures == UNION {[1..k -> OrderPool] : k \in 1..MaxCapture}

\* sorted with n put in front of the elements whose key equals its own
InsertByKey_front(sorted, n) ==
    LET k == Cardinality({i \in 1..Len(sorted) :
                             KeyLeq(SortKey(sorted[i]), SortKey(n))
                             /\ ~KeyLeq(SortKey(n), SortKey(sorted[i]))})
    IN  SubSeq(sorted, 1, k) \o <<n>> \o SubSeq(sorted, k + 1, Len(sorted))

\* sorted with n put behind every element whose key is not greater
InsertByKey(sorted, n) ==
    LET k == Cardinality({i \in 1..Len(sorted) : KeyLeq(SortKey(sorted[i]), SortKey(n))})
    IN  SubSeq(sorted, 1, k) \o <<n>> \o SubSeq(sorted, k + 1, Len(sorted))

RECURSIVE SortNodes(_)
\* nodes.sort(key=...), line 387: list.sort is stable
SortNodes(nodes) ==
    IF nodes = <<>> THEN <<>>
    ELSE InsertByKey(SortNodes(SubSeq(nodes, 1, Len(nodes) - 1)), nodes[Len(nodes)])

InitOrder ==
    /\ ROW_ASPECT = DefaultRowAspect
    /\ ASCII_IMG_W = DefaultAsciiImgW
    /\ caps = [pw |-> TRUE, pil |-> TRUE, cairosvg |-> TRUE]
    /\ \E W \in RenderWidths :
         S = [c \in Conns |->
                IF c = "A" THEN [NewSession EXCEPT !.width = W, !.auto_image = FALSE]
                ELSE NewSession]
    /\ R = [c \in Conns |-> NoFrame]
    /\ conn = [c \in Conns |-> "serving"]
    /\ ncmd = 0
    /\ \E cap \in Captures : fn = [op |-> "capture", nodes |-> cap]

\* load_url up to the loop, lines 544 and 551-560, with the snapshot
\* ordered by lines 384-388
SnapshotSorted(c) ==
    /\ fn.op = "capture"
    /\ conn[c] = "serving"
    /\ R[c].phase = "none"
    /\ c = "A"
    /\ S' = [S EXCEPT ![c].current_url = UrlHome]
    /\ R' = [R EXCEPT ![c] = StartFrame(R[c], "goto", UrlHome, SortNodes(fn.nodes), S[c],
                                        ROW_ASPECT, ASCII_IMG_W)]
    /\ conn' = [conn EXCEPT ![c] = "loading"]
    /\ UNCHANGED <<ROW_ASPECT, ASCII_IMG_W, caps, ncmd, fn>>

NextOrder == \E c \in Conns : SnapshotSorted(c) \/ RenderNode(c) \/ RenderFinish(c)

SpecOrder == InitOrder /\ [][NextOrder]_vars

-----------------------------------------------------------------------------
(* SpecPages: the render of a few whole pages (images, linked texts, gaps  *)
(* of empty rows between them) at several terminal widths, images on and   *)
(* off, up to the published text.                                          *)

PageSnapshots == {Web(UrlHome), Web(UrlNews), <<nWeather, nReadMore, nBg>>}

PageWidths == {MinWidth, PresetWidth, TERM_WIDTH, MaxWidth}

InitPages ==
    /\ ROW_ASPECT = DefaultRowAspect
    /\ ASCII_IMG_W = DefaultAsciiImgW
    /\ caps = [pw |-> TRUE, pil |-> TRUE, cairosvg |-> TRUE]
    /\ \E W \in PageWidths, ai \in BOOLEAN, nodes \in PageSnapshots :
         /\ S = [c \in Conns |->
                   IF c = "A"
                   THEN [NewSession EXCEPT !.width = W, !.auto_image = ai,
                                           !.current_url = UrlHome]
                   ELSE NewSession]
         /\ R = [c \in Conns |->
                   IF c = "A"
                   THEN StartFrame(NoFrame, "goto", UrlHome, nodes, S[c],
                                   ROW_ASPECT, ASCII_IMG_W)
                   ELSE NoFrame]
    /\ conn = [c \in Conns |-> IF c = "A" THEN "loading" ELSE "serving"]
    /\ ncmd = 0
    /\ fn = NoFn

SpecPages == InitPages /\ [][NextRender]_vars

-----------------------------------------------------------------------------
(* SpecNumber: the command loop with searches, goto and digits-only lines. *)
(* Connection A starts with the results of an earlier search.  fn holds    *)
(* the last digits-only line read: who sent it, as which command of the    *)
(* run, the number, and which of the three branches of lines 847-856 ran.  *)

\* What S.search can return (line 925): lists of results, each with a link
SearchOutcomes ==
    {<<>>, <<[link |-> UrlSport]>>, <<[link |-> UrlNews], [link |-> UrlHome]>>}

\* The numbers a digits-only line can spell (line 846), out of range included
NumberInputs == {0, 1, 2, 3}

\* A line that is not a command, lines 918-937: a search.  Without
\* Playwright, or when the search raises, last_results stays as it is.
CmdSearch(c) ==
    /\ ReadsCommand(c)
    /\ \E out \in {"raises", "returns"} :
         IF caps.pw /\ out = "returns"
         THEN \E res \in SearchOutcomes : S' = [S EXCEPT ![c].last_results = res]
         ELSE S' = S
    /\ UNCHANGED <<ROW_ASPECT, ASCII_IMG_W, caps, R, conn, fn>>

\* The line read as command number k was the number n on connection c
NumericLine(c, k, n, branch) == [op |-> "line", conn |-> c, k |-> k, n |-> n, branch |-> branch]

CmdNumeric_linkfirst(c) ==
    /\ ReadsCommand(c)
    /\ \E n \in NumberInputs :
         IF 1 <= n /\ n <= Len(S[c].links)
         THEN /\ load_url(c, "number", S[c].links[n].href)
              /\ fn' = NumericLine(c, ncmd + 1, n, "link")
         ELSE IF S[c].last_results # <<>> /\ 1 <= n /\ n <= Len(S[c].last_results)
         THEN /\ load_url(c, "number", S[c].last_results[n].link)
              /\ fn' = NumericLine(c, ncmd + 1, n, "result")
         ELSE /\ fn' = NumericLine(c, ncmd + 1, n, "invalid")
              /\ UNCHANGED <<S, R, conn>>
    /\ UNCHANGED <<ROW_ASPECT, ASCII_IMG_W, caps>>

\* A digits-only line, lines 845-856, through open_result and open_link
\* (lines 638-646)
CmdNumeric(c) ==
    /\ ReadsCommand(c)
    /\ \E n \in NumberInputs :
         IF S[c].last_results # <<>> /\ 1 <= n /\ n <= Len(S[c].last_results)
         THEN /\ load_url(c, "number", S[c].last_results[n].link)
              /\ fn' = NumericLine(c, ncmd + 1, n, "result")
         ELSE IF 1 <= n /\ n <= Len(S[c].links)
         THEN /\ load_url(c, "number", S[c].links[n].href)
              /\ fn' = NumericLine(c, ncmd + 1, n, "link")
         ELSE /\ fn' = NumericLine(c, ncmd + 1, n, "invalid")
              /\ UNCHANGED <<S, R, conn>>
    /\ UNCHANGED <<ROW_ASPECT, ASCII_IMG_W, caps>>

InitNumber ==
    /\ ROW_ASPECT = DefaultRowAspect
    /\ ASCII_IMG_W = DefaultAsciiImgW
    /\ caps = [pw |-> TRUE, pil |-> TRUE, cairosvg |-> TRUE]
    /\ \E res \in SearchOutcomes :
         S = [c \in Conns |-> IF c = "A" THEN [NewSession EXCEPT !.last_results = res]
                              ELSE NewSession]
    /\ R = [c \in Conns |-> NoFrame]
    /\ conn = [c \in Conns |-> "serving"]
    /\ ncmd = 0
    /\ fn = NoFn

NextNumber ==
    \E c \in Conns :
        \/ CmdSearch(c)
        \/ CmdGoto(c)
        \/ CmdNumeric(c)
        \/ RenderNode(c)
        \/ RenderFinish(c)

SpecNumber == InitNumber /\ [][NextNumber]_vars

-----------------------------------------------------------------------------
(* Properties                                                              *)

\* One prefix holds the other (line 603)
Containing(a, b) == IsSubstr(a, b) \/ IsSubstr(b, a)

IsPrefixOf(a, b) == Len(a) <= Len(b) /\ SubSeq(b, 1, Len(a)) = a

\* The projected rectangle of the node the loop of c is about to process
CurNode(c) == R[c].nodes[R[c].i]

CurRect(c) == Project(CurNode(c), R[c].W, R[c].vp_w, R[c].ra)

\* This step is a pass of the loop of c over a node that reaches the
\* text branch (line 598) and is eligible there
TextStep(c) ==
    /\ conn[c] = "loading" /\ R[c].phase = "loop" /\ R[c].i <= Len(R[c].nodes)
    /\ R'[c].i = R[c].i + 1
    /\ ~(CurNode(c).tag = "img" /\ CurNode(c).src # "")
    /\ CurNode(c).txt # <<>>
    /\ should_draw_text_node(CurNode(c))

\* The node of this step left no trace as a text node: no paint of its
\* text, no new link, no new placed record
Dropped(c) ==
    /\ R'[c].acc.placed_text_rects = R[c].acc.placed_text_rects
    /\ R'[c].acc.link_map = R[c].acc.link_map
    /\ \A k \in (Len(R[c].acc.canvas) + 1)..Len(R'[c].acc.canvas) :
         ~(R'[c].acc.canvas[k].op = "text"
           /\ IsPrefixOf(CurNode(c).txt, R'[c].acc.canvas[k].text))

\* The node of this step was painted and recorded once
Kept(c) ==
    /\ R'[c].acc.placed_text_rects =
         Append(R[c].acc.placed_text_rects,
                [rect |-> CurRect(c), sn |-> Take(CurNode(c).txt, SnippetLen)])
    /\ \E k \in (Len(R[c].acc.canvas) + 1)..Len(R'[c].acc.canvas) :
         /\ R'[c].acc.canvas[k].op = "text"
         /\ IsPrefixOf(CurNode(c).txt, R'[c].acc.canvas[k].text)

\* Some placed record overlaps the current node by at least pct/100 (the
\* bound included or not) and shares a prefix with it
NearRecord(c, pct, inclusive) ==
    \E k \in 1..Len(R[c].acc.placed_text_rects) :
        LET rec == R[c].acc.placed_text_rects[k]
            iou == rect_iou(CurRect(c), rec.rect)
        IN  /\ IF inclusive THEN iou[1] * 100 >= pct * iou[2]
                            ELSE iou[1] * 100 > pct * iou[2]
            /\ Containing(Take(CurNode(c).txt, SnippetLen), rec.sn)

\* C1 as stated: a text node whose rectangle has IoU >= 0.65 (0.65
\* included) with a placed record sharing a prefix with it is dropped.
C1_AsStated ==
    [][\A c \in Conns : TextStep(c) /\ NearRecord(c, 65, TRUE) => Dropped(c)]_vars

\* C1 amended: a text node whose rectangle has IoU strictly above 0.65 with
\* a placed record sharing a 24-character prefix with it is dropped: no
\* paint of its text, no link registered, no placed record appended.
C1_DuplicateDropped ==
    [][\A c \in Conns : TextStep(c) /\ NearRecord(c, 65, FALSE) => Dropped(c)]_vars

\* nNarrow was placed and nWide, 25/36 over it at 110 columns with the same
\* text, was dropped with its href
C1_Witness ==
    /\ R["A"].phase = "returned"
    /\ R["A"].nodes = <<nNarrow, nWide>>
    /\ R["A"].W = TERM_WIDTH
    /\ Len(R["A"].acc.placed_text_rects) = 1
    /\ R["A"].acc.link_map = <<>>

\* C2: an eligible text node is dropped only if one placed record has both
\* IoU above the threshold and a shared prefix with it; otherwise it is
\* kept, is painted, and appends exactly one (rect, prefix) record.
C2_TwoSignals ==
    [][\A c \in Conns :
         TextStep(c) =>
           /\ Dropped(c) \/ Kept(c)
           /\ Dropped(c) => NearRecord(c, 65, FALSE)
           /\ ~NearRecord(c, 65, FALSE) => Kept(c)]_vars

\* After nNarrow, nWeather (same rectangle, no shared prefix) and nWide
\* (same text, IoU 13/20, not above the threshold, at 60 columns) are kept
C2_Witness ==
    /\ R["A"].phase = "returned"
    /\ R["A"].nodes = <<nNarrow, nWeather, nWide>>
    /\ R["A"].W = 60
    /\ Len(R["A"].acc.placed_text_rects) = 3

\* The paint operations that wrote the text of a node
TextPaints(canvas) == {k \in 1..Len(canvas) : canvas[k].op = "text"}

NoRepeat(seq) == \A i, j \in 1..Len(seq) : seq[i] = seq[j] => i = j

RECURSIVE FirstSeen(_)
\* seq without the later occurrences of a value
FirstSeen(seq) ==
    IF seq = <<>> THEN <<>>
    ELSE LET front == FirstSeen(SubSeq(seq, 1, Len(seq) - 1))
             v == seq[Len(seq)]
         IN  IF v \in Range(front) THEN front ELSE Append(front, v)

\* The URLs of registry reg in the order the loop met them
Met(marks, reg) ==
    LET ks == SelectSeq([k \in 1..Len(marks) |-> k], LAMBDA k : marks[k].reg = reg)
    IN  [j \in 1..Len(ks) |-> marks[ks[j]].url]

RegistryOk(acc) ==
    /\ NoRepeat(acc.link_map)
    /\ NoRepeat(acc.image_map)
    /\ acc.link_map = FirstSeen(Met(acc.marks, "link"))
    /\ acc.image_map = FirstSeen(Met(acc.marks, "image"))
    /\ \A k \in 1..Len(acc.marks) :
         LET m == acc.marks[k]
             map == IF m.reg = "link" THEN acc.link_map ELSE acc.image_map
         IN  m.idx \in 1..Len(map) /\ map[m.idx] = m.url

\* C4: in a render no registry holds a URL twice, a URL's index is its
\* 1-based position in first-seen order, meeting it again yields that
\* index and leaves the registry as it is, and the listings published at
\* the end carry the indices that were painted.
C4_Registries ==
    \A c \in Conns :
        /\ RegistryOk(R[c].acc)
        /\ R[c].phase = "returned" =>
             /\ S[c].full_text.links = R[c].acc.link_map
             /\ S[c].full_text.images = R[c].acc.image_map
             /\ S[c].links = LinkList(R[c].acc.link_map)
             /\ S[c].images = ImageList(R[c].acc.image_map)

\* Two links were registered and the first was met again after the second
C4_Witness ==
    /\ R["A"].phase = "returned"
    /\ R["A"].acc.link_map = <<UrlNews, UrlSport>>
    /\ \E j, k \in 1..Len(R["A"].acc.marks) :
         /\ j < k
         /\ R["A"].acc.marks[j] = [reg |-> "link", url |-> UrlSport, idx |-> 2]
         /\ R["A"].acc.marks[k] = [reg |-> "link", url |-> UrlNews, idx |-> 1]

RECURSIVE RenderPrefix(_, _, _, _, _, _)
\* The accumulators after the first k passes of the loop over nodes, from
\* fresh accumulators, with envs[j] the process-wide values and answers[j]
\* the network's answer at pass j
RenderPrefix(nodes, k, fr, sess, envs, answers) ==
    IF k = 0 THEN FreshAcc
    ELSE ProcessNode(RenderPrefix(nodes, k - 1, fr, sess, envs, answers),
                     nodes[k], fr, sess, envs[k], answers[k])

\* What a render did apart from the conversions themselves: the text
\* paints, the registries, the indices handed out, the placed records and
\* the budget used
TextView(acc) ==
    [texts |-> SelectSeq(acc.canvas, LAMBDA o : o.op = "text"),
     link_map |-> acc.link_map, image_map |-> acc.image_map,
     marks |-> acc.marks, placed |-> acc.placed_text_rects,
     auto_img_count |-> acc.auto_img_count]

\* The same passes with every fetch and every decoding succeeding
AllSucceed(c) ==
    RenderPrefix(R[c].nodes, Len(R[c].answers), R[c], S[c],
                 [j \in 1..Len(R[c].answers) |-> Env(ROW_ASPECT, ASCII_IMG_W, TRUE, TRUE)],
                 [j \in 1..Len(R[c].answers) |-> "raster"])

\* C7: a failing image is local.  The conversion yields one line of
\* explanation, nothing escapes the loop, and the text painted, the
\* registries, the indices and the placed records after any number of
\* passes are those of the run in which every image succeeds.
C7_ImageFailureLocal ==
    \A c \in Conns :
        /\ ~R[c].acc.raised
        /\ R[c].phase # "escaped"
        /\ conn[c] # "crashed"
        /\ \A k \in 1..Len(R[c].acc.canvas) :
             LET o == R[c].acc.canvas[k]
             IN  o.op = "art" /\ o.art.kind # "art" => o.art.kind = "note" /\ o.art.h = 1
        /\ R[c].phase \in {"loop", "returned"} =>
             /\ R[c].i = Len(R[c].answers) + 1
             /\ TextView(R[c].acc) = TextView(AllSucceed(c))

\* An image whose fetch failed was followed by a linked text and by an
\* image whose decoding failed, and the render returned
C7_Witness ==
    /\ R["A"].phase = "returned"
    /\ R["A"].nodes = <<nImg, nReadMore, nBg>>
    /\ R["A"].answers = <<"fetch_error", "none", "corrupt">>
    /\ caps.pil
    /\ Len(R["A"].acc.canvas) = 6
    /\ R["A"].acc.canvas[2].art.why = "fetch_error"
    /\ R["A"].acc.canvas[3].text = WithIndex(TextReadMore, 1)
    /\ R["A"].acc.canvas[5].art.why = "conv_error"
    /\ R["A"].acc.canvas[6].text = WithIndex(TextBanner, 1)

\* C5 as stated: whatever the collaborators answer, no exception leaves
\* load_url and no handler thread is ended by one.
C5_LoadAlwaysReturns ==
    \A c \in Conns :
        /\ R[c].phase # "escaped"
        /\ conn[c] # "crashed"

\* Every value of ROW_ASPECT and ASCII_IMG_W that the render loop of c has
\* read so far is the value that was current when load_url entered the loop
HeldFixed(c) ==
    \A k \in 1..Len(R[c].acc.reads) :
        LET rd == R[c].acc.reads[k]
        IN  rd.val = (IF rd.name = "ROW_ASPECT" THEN R[c].ra ELSE R[c].aw0)

\* C6 as stated: a render uses, for every conversion and every clip, the
\* ROW_ASPECT and ASCII_IMG_W that were current when it started, whatever
\* the other connections do meanwhile.
C6_GlobalsHeldFixed ==
    \A c \in Conns : R[c].path = "layout" => HeldFixed(c)

\* The render of c has returned and the module globals kept, at each of
\* its reads, the values they had at its start
Rendered(c) ==
    /\ R[c].path = "layout"
    /\ R[c].phase = "returned"
    /\ HeldFixed(c)

\* Same snapshot, same configuration, same collaborator answers
SameRun(c, d) ==
    /\ R[c].url = R[d].url
    /\ R[c].nodes = R[d].nodes
    /\ R[c].W = R[d].W
    /\ R[c].ra = R[d].ra
    /\ R[c].aw0 = R[d].aw0
    /\ R[c].auto_image = R[d].auto_image
    /\ R[c].filter_icons = R[d].filter_icons
    /\ R[c].answers = R[d].answers

\* What a page load leaves in the session
Published(c) == <<S[c].full_text, S[c].links, S[c].images>>

\* The accumulators of the whole loop run from fresh ones over the inputs
\* of the render of c alone
FromInputs(c) ==
    RenderPrefix(R[c].nodes, Len(R[c].nodes), R[c],
                 [auto_image |-> R[c].auto_image, filter_icons |-> R[c].filter_icons],
                 [j \in 1..Len(R[c].nodes) |->
                     Env(R[c].ra, R[c].aw0, caps.pil, caps.cairosvg)],
                 R[c].answers)

\* C8: rendering is deterministic and carries nothing over.  Two returned
\* renders of the same snapshot under the same configuration and the same
\* collaborator answers published the same full_text, links and images,
\* whatever their sessions loaded before; and what a render published is
\* what the loop computes from fresh accumulators over its inputs alone.
C8_Deterministic ==
    /\ \A c, d \in Conns :
         Rendered(c) /\ Rendered(d) /\ SameRun(c, d) => Published(c) = Published(d)
    /\ \A c \in Conns :
         Rendered(c) =>
             Published(c) = <<PageText(R[c].url, R[c].W, FromInputs(c)),
                              LinkList(FromInputs(c).link_map),
                              ImageList(FromInputs(c).image_map)>>

\* A rendered the news page, whose only link is the sport page, and then
\* the home page, and what it published for the home page holds the home
\* page's links and image alone
C8_Witness ==
    /\ Rendered("A")
    /\ S["A"].history = <<UrlNews>>
    /\ R["A"].nodes = Web(UrlHome)
    /\ R["A"].answers = <<"raster", "none", "none">>
    /\ S["A"].links = LinkList(<<UrlNews, UrlSport>>)
    /\ S["A"].images = ImageList(<<ImgA>>)
    /\ S["A"].full_text.kind = "render"
    /\ S["A"].full_text.url = UrlHome
    /\ S["A"].full_text.links = <<UrlNews, UrlSport>>
    /\ Len(S["A"].full_text.canvas) = 4

\* C9: whatever the pixel rectangle of a node, zero and negative sizes
\* included, its projection is at least 6 columns wide and 1 row high.
C9_ProjectionFloors ==
    fn.op = "proj_out" => fn.out.w >= 6 /\ fn.out.h >= 1

C9_Witness ==
    /\ fn.op = "proj_out"
    /\ fn.n.w < 0
    /\ fn.n.h = 0
    /\ fn.out.w = 6
    /\ fn.out.h = 1

\* C10: rect_iou is symmetric and lies in [0, 1] on rectangles of
\* non-negative width and height.
C10_IouSymmetricBounded ==
    fn.op = "iou_out" =>
        /\ fn.out = fn.rev
        /\ fn.out[2] > 0
        /\ 0 <= fn.out[1]
        /\ fn.out[1] <= fn.out[2]

\* Two different rectangles that overlap in part
C10_Witness ==
    /\ fn.op = "iou_out"
    /\ fn.a # fn.b
    /\ fn.a.w * fn.a.h # fn.b.w * fn.b.h
    /\ fn.out[1] > 0
    /\ fn.out[1] < fn.out[2]

\* The unit cells a rectangle of non-negative width and height covers
Cells(a) == (a.x .. (a.x + a.w - 1)) \X (a.y .. (a.y + a.h - 1))

\* Area shared by two rectangles, counted cell by cell
SharedArea(a, b) == Cardinality(Cells(a) \cap Cells(b))

\* C11 as stated: rect_iou(a, a) = 1 for every rectangle a, 0 for
\* rectangles sharing no area, and in general shared area over
\* (area(a) + area(b) - shared area).
C11_AsStated ==
    fn.op = "iou_out" =>
        /\ fn.a = fn.b => fn.out[1] = fn.out[2]
        /\ SharedArea(fn.a, fn.b) = 0 => fn.out[1] = 0
        /\ fn.out[1] * (Cardinality(Cells(fn.a)) + Cardinality(Cells(fn.b))
                        - SharedArea(fn.a, fn.b))
             = SharedArea(fn.a, fn.b) * fn.out[2]

\* C11: rect_iou(a, a) = 1 for every rectangle a of positive width and
\* height; rect_iou is 0 for two rectangles sharing no area, a rectangle
\* of zero area with itself included; and when the two share area the
\* result is shared area over (area(a) + area(b) - shared area).
C11_IouValues ==
    fn.op = "iou_out" =>
        /\ fn.a = fn.b /\ fn.a.w > 0 /\ fn.a.h > 0 => fn.out[1] = fn.out[2]
        /\ SharedArea(fn.a, fn.b) = 0 => fn.out = <<0, 1>>
        /\ SharedArea(fn.a, fn.b) > 0 =>
             fn.out = <<SharedArea(fn.a, fn.b),
                        Cardinality(Cells(fn.a)) + Cardinality(Cells(fn.b))
                            - SharedArea(fn.a, fn.b)>>

\* A rectangle of positive area against itself gave 1
C11_Witness ==
    /\ fn.op = "iou_out"
    /\ fn.a = fn.b
    /\ fn.a.w = 2
    /\ fn.a.h = 1
    /\ fn.out = <<2, 2>>

\* This step is a pass of the loop of c over an anchor node
AnchorStep(c) ==
    /\ conn[c] = "loading" /\ R[c].phase = "loop" /\ R[c].i <= Len(R[c].nodes)
    /\ R'[c].i = R[c].i + 1
    /\ CurNode(c).tag = "a"

\* The last paint of this step is the node's text followed by " [idx]",
\* idx being the place of its href in the link registry
PaintedWithIndex(c) ==
    /\ Len(R'[c].acc.canvas) = Len(R[c].acc.canvas) + 1
    /\ CurNode(c).href \in Range(R'[c].acc.link_map)
    /\ LET o == R'[c].acc.canvas[Len(R'[c].acc.canvas)]
           idx == IndexOf(R'[c].acc.link_map, CurNode(c).href)
       IN  /\ o.op = "text"
           /\ o.text = CurNode(c).txt \o <<" ", "[">> \o Str(idx) \o <<"]">>

\* C12: an anchor whose text is shorter than 5 characters leaves no trace
\* (no paint of its text, no link registered, no placed record), wherever
\* it stands in the snapshot; an anchor of at least 5 characters with an
\* href that is not a duplicate is painted with its bracketed index and
\* its href is in the link registry.
C12_Anchors ==
    [][\A c \in Conns :
         AnchorStep(c) =>
           /\ Len(CurNode(c).txt) < 5 => Dropped(c)
           /\ (/\ Len(CurNode(c).txt) >= 5
               /\ CurNode(c).href # ""
               /\ ~NearRecord(c, 65, FALSE)) => Kept(c) /\ PaintedWithIndex(c)]_vars

\* "Read more" was painted as "Read more [1]" and registered; "OK", after
\* it in paint order, left nothing
C12_Witness ==
    /\ R["A"].phase = "returned"
    /\ R["A"].nodes = <<nReadMore, nOK>>
    /\ R["A"].acc.link_map = <<UrlNews>>
    /\ Len(R["A"].acc.placed_text_rects) = 1
    /\ Len(R["A"].acc.canvas) = 1
    /\ R["A"].acc.canvas[1].text = TextReadMore \o <<" ", "[", "1", "]">>

\* C13: the two headings "Breaking News" and "Weather" rendered at 80
\* columns end up, each in full, on two different non-blank lines of the
\* flattened text; neither is dropped as a duplicate.
C13_Headings ==
    \A c \in Conns :
        R[c].phase = "returned" =>
            /\ Len(R[c].acc.placed_text_rects) = 2
            /\ LET flat == Flatten(S[c].full_text)
               IN  \E i, j \in 1..Len(flat) :
                     /\ i # j
                     /\ IsSubstr(<<"B", "r", "e", "a", "k", "i", "n", "g", " ", "N", "e", "w", "s">>,
                                 flat[i])
                     /\ IsSubstr(<<"W", "e", "a", "t", "h", "e", "r">>, flat[j])

\* Two h2 headings returned as "**Breaking News**", one blank line (rows 1
\* to 5 are blank and compressed), "**Weather**" and the page line
C13_Witness ==
    /\ R["A"].phase = "returned"
    /\ R["A"].W = 80
    /\ R["A"].nodes = <<Heading("h2", 0, TextBreaking, "700"), Heading("h2", 200, TextWeather, "700")>>
    /\ Flatten(S["A"].full_text) =
         << <<"*", "*">> \o TextBreaking \o <<"*", "*">>,
            <<>>,
            <<"*", "*">> \o TextWeather \o <<"*", "*">>,
            <<"#", " ", UrlHome>> >>

\* Node n is handled by an image branch of the loop (lines 570 and 584)
IsImageNode(n) == (n.tag = "img" /\ n.src # "") \/ n.bg # ""

\* The image nodes among the first k nodes of the render of c
ImageNodesDone(c, k) == {j \in 1..k : IsImageNode(R[c].nodes[j])}

\* C14: in one render the image fetch and conversion run at most
\* AUTO_IMG_MAX times and the counter never passes that budget; with
\* auto-image off they never run.  Every image node gets its "[IMG n]"
\* placeholder, budget or not; an art block starts one row below its
\* placeholder, at the same column, cut to min(projected width, ASCII
\* image width).
C14_ImageBudget ==
    \A c \in Conns :
        R[c].path = "layout" =>
            LET canvas == R[c].acc.canvas
                arts == {k \in 1..Len(canvas) : canvas[k].op = "art"}
                labels == {k \in 1..Len(canvas) :
                              /\ canvas[k].op = "text"
                              /\ SubSeq(canvas[k].text, 1, 5) = <<"[", "I", "M", "G", " ">>}
                fetches == {j \in 1..Len(R[c].answers) : R[c].answers[j] # "none"}
            IN  /\ R[c].acc.auto_img_count <= AUTO_IMG_MAX
                /\ Cardinality(fetches) = R[c].acc.auto_img_count
                /\ Cardinality(arts) = R[c].acc.auto_img_count
                /\ ~R[c].auto_image => fetches = {} /\ arts = {}
                /\ Cardinality(labels) = Cardinality(ImageNodesDone(c, R[c].i - 1))
                /\ \A k \in arts :
                     /\ k - 1 \in labels
                     /\ canvas[k].row = canvas[k - 1].row + 1
                     /\ canvas[k].col = canvas[k - 1].col
                     /\ canvas[k].w = Min(canvas[k - 1].w, R[c].aw0)

\* Five image nodes were rendered with auto-image on: five placeholders,
\* three conversions, and the budget was spent on the first three
C14_Witness ==
    /\ R["A"].phase = "returned"
    /\ R["A"].auto_image
    /\ R["A"].nodes = <<nImg, nImg, nSvg, nBg, nBg>>
    /\ R["A"].answers = <<"raster", "raster", "raster", "none", "none">>
    /\ R["A"].acc.auto_img_count = AUTO_IMG_MAX
    /\ Cardinality({k \in 1..Len(R["A"].acc.canvas) : R["A"].acc.canvas[k].op = "art"}) = 3
    /\ R["A"].acc.image_map = <<ImgA, ImgSvg>>

\* The last page load of c succeeded and nothing was loaded since
Loaded(c) == R[c].phase = "returned"

\* The registries a load of the page of R[c] builds from nothing: those of
\* the render loop from fresh accumulators, or the lists of the fallback
\* path under link filter fi
BuiltLinks(c, fi) ==
    IF R[c].path = "layout" THEN FromInputs(c).link_map
    ELSE FallbackLinks(HtmlOf(R[c].url).anchors, Len(HtmlOf(R[c].url).anchors), fi)

BuiltImages(c) ==
    IF R[c].path = "layout" THEN FromInputs(c).image_map
    ELSE FallbackImgs(HtmlOf(R[c].url).imgs, Len(HtmlOf(R[c].url).imgs))

\* This step is open_link(n) of connection c reaching load_url
OpensLink(c) ==
    /\ ncmd' = ncmd + 1
    /\ R'[c] # R[c]
    /\ R'[c].via \in {"number", "follow"}

\* C15: after a successful page load the session's links and images are
\* the registries that load built, in index order, with nothing of an
\* earlier page; every index the page shows next to a link names that
\* link's entry, and open_link(n) loads entry n.
C15_LinksAfterLoad ==
    /\ [](\A c \in Conns :
            Loaded(c) =>
              /\ \E fi \in BOOLEAN : S[c].links = LinkList(BuiltLinks(c, fi))
              /\ S[c].images = ImageList(BuiltImages(c))
              /\ S[c].links = LinkList(R[c].acc.link_map)
              /\ \A k \in 1..Len(R[c].acc.marks) :
                   LET m == R[c].acc.marks[k]
                   IN  m.reg = "link" =>
                         m.idx \in 1..Len(S[c].links) /\ S[c].links[m.idx].href = m.url)
    /\ [][\A c \in Conns :
            OpensLink(c) =>
              \E n \in 1..Len(S[c].links) : R'[c].url = S[c].links[n].href]_vars

\* A loaded the home page (links to news and sport), followed link 1 and
\* got the news page, which shows no link: its list is empty
C15_Witness ==
    /\ Loaded("A")
    /\ R["A"].path = "layout"
    /\ R["A"].via = "follow"
    /\ R["A"].url = UrlNews
    /\ S["A"].history = <<UrlHome>>
    /\ S["A"].current_url = UrlNews
    /\ S["A"].links = <<>>
    /\ S["A"].images = <<>>

\* This step is a command of c that called load_url
LoadStep(c) ==
    /\ ncmd' = ncmd + 1
    /\ R'[c] # R[c]

\* C16 as stated: when JS mode is off, the rendering capability is absent
\* or the snapshot has no node, load_url goes the fallback way; and every
\* load that goes the fallback way (a snapshot that raised included) makes
\* no canvas, evaluates no dedup and returns the text and the registries
\* of _render_fallback_url.
C16_FallbackRendering ==
    [][\A c \in Conns :
         LoadStep(c) =>
           /\ (~S[c].js_mode \/ ~caps.pw \/ Web(R'[c].url) = <<>>) =>
                R'[c].path = "fallback"
           /\ R'[c].path = "fallback" =>
                /\ R'[c].acc.canvas = <<>>
                /\ R'[c].acc.placed_text_rects = <<>>
                /\ R'[c].phase = "returned"
                /\ S'[c].full_text.kind = "fallback"
                /\ S'[c].links = LinkList(R'[c].acc.link_map)
                /\ S'[c].images = ImageList(R'[c].acc.image_map)]_vars

\* The string is nlines lines of exactly w characters, each followed by a
\* line break, and every character is one of the ramp characters
IsArtOf(str, w, nlines) ==
    /\ Len(str) = nlines * (w + 1)
    /\ \A k \in 1..Len(str) :
         IF k % (w + 1) = 0 THEN str[k] = "\n"
         ELSE str[k] \in {ASCII_RAMP[j] : j \in 1..10}

\* n / d rounded to the nearest integer (n >= 0, d > 0)
Rounded(n, d) == (2 * n + d) \div (2 * d)

\* C17 as stated: the conversion returns h lines of w characters with
\* w = max(20, width) and h = max(1, round(height * (w / width0) * aspect)).
C17_AsStated ==
    fn.op = "codec_out" =>
        LET w == IF fn.width > 20 THEN fn.width ELSE 20
            im == ImgDims(fn.url)
        IN  IsArtOf(fn.out, w, Max(1, Rounded(im.h * w * fn.ra, im.w * 100)))

\* C17: for a decodable image and any requested width the conversion
\* returns exactly h lines of exactly w ramp characters, each line ended
\* by a line break, with w = max(20, width) and
\* h = max(1, int(height * (w / width0) * aspect)), the product cut toward
\* zero and not rounded.
C17_CodecShape ==
    fn.op = "codec_out" =>
        LET w == IF fn.width > 20 THEN fn.width ELSE 20
            im == ImgDims(fn.url)
        IN  IsArtOf(fn.out, w, Max(1, (im.h * w * fn.ra) \div (im.w * 100)))

\* A 400 x 210 image asked at 19 columns under aspect 0.52 came out as 5
\* lines of 20 characters (5.46 cut to 5)
C17_Witness ==
    /\ fn.op = "codec_out"
    /\ fn.url = ImgA
    /\ fn.width = 19
    /\ fn.ra = 52
    /\ Len(fn.out) = 5 * 21
    /\ SubSeq(fn.out, 1, 21) = <<"@", "%", "*", "+", "=", "-", ".", "@", "%", "*", "+", "=",
                                 ":", ".", "@", "%", "*", "+", "=", ":", "\n">>

\* C18: whatever commands the connections have run, every session's
\* terminal width is within 60..200 columns.
C18_WidthRange ==
    \A c \in Conns : S[c].width >= 60 /\ S[c].width <= 200

\* A asked for 250 columns and got 200, B asked for 40 and got 60
C18_Witness ==
    /\ S["A"].width = 200
    /\ S["B"].width = 60
    /\ ncmd = 2

\* C19 as stated: a node with a CSS background image is handled as an
\* image only; the pass over it paints the placeholder and leaves no trace
\* of the node as text (no paint of its text, no link, no placed record).
C19_ImageOrText ==
    [][\A c \in Conns :
         (/\ conn[c] = "loading" /\ R[c].phase = "loop" /\ R[c].i <= Len(R[c].nodes)
          /\ R'[c].i = R[c].i + 1
          /\ CurNode(c).bg # "")
         => Dropped(c)]_vars

\* The rows of characters each call of the canvas writes
CallRows == [k \in 1..Len(fn.calls) |-> RowsOf(fn.calls[k])]

\* Call k, writing the rows rs, addresses the cell at row r, column c (from 0)
Addresses(rs, k, r, c) ==
    /\ (r - fn.calls[k].row) \in 0..(Len(rs[k]) - 1)
    /\ (c - fn.calls[k].col) \in 0..(Len(rs[k][r - fn.calls[k].row + 1]) - 1)

\* What last-write-wins gives the cell at row r, column c
LastWrite(rs, r, c) ==
    LET ks == {k \in 1..Len(fn.calls) : Addresses(rs, k, r, c)}
        k == CHOOSE k \in ks : \A j \in ks : j <= k
    IN  IF ks = {} THEN " "
        ELSE rs[k][r - fn.calls[k].row + 1][c - fn.calls[k].col + 1]

\* C20: after any sequence of draws each cell of the canvas holds the
\* character of the last call that addressed it, a space if none did; and
\* a call changes no cell outside the rows and columns it addresses.
C20_LastWriteWins ==
    /\ [](fn.op = "canvas" =>
            \A rs \in {CallRows} :
              \A r \in 1..Len(fn.lines) :
                /\ Len(fn.lines[r]) = fn.W
                /\ \A c \in 1..fn.W : fn.lines[r][c] = LastWrite(rs, r - 1, c - 1))
    /\ [][fn.op = "canvas" /\ Len(fn'.calls) = Len(fn.calls) + 1 =>
            \A o \in {fn'.calls[Len(fn'.calls)]} : \A n \in {Len(RowsOf(o))} :
              \A r \in 1..Len(fn'.lines), c \in 1..fn.W :
                ~(/\ (r - 1 - o.row) \in 0..(n - 1)
                  /\ (c - 1 - o.col) \in 0..(o.w - 1))
                => fn'.lines[r][c] = (IF r <= Len(fn.lines) THEN fn.lines[r][c] ELSE " ")]_vars

\* "Read more [1]" was drawn at row 0 and an art block over its first six
\* columns: the art's characters lie over the text, the rest of the text
\* stays
C20_Witness ==
    /\ fn.op = "canvas"
    /\ Len(fn.calls) = 2
    /\ fn.calls[1].op = "text" /\ fn.calls[1].row = 0 /\ fn.calls[1].col = 0
    /\ ~fn.calls[1].bold /\ fn.calls[1].text = WithIndex(TextReadMore, 1)
    /\ fn.calls[2].op = "art" /\ fn.calls[2].row = 0 /\ fn.calls[2].col = 0
    /\ fn.calls[2].art.kind = "art"
    /\ SubSeq(fn.lines[1], 1, 13) = <<"@", "%", "*", "+", "=", "-", "o", "r", "e", " ", "[", "1", "]">>
    /\ Len(fn.lines) = 2

\* perm arranges the captured list cap into nodes: ascending keys, and
\* capture order among equal keys
IsStableOrdering(perm, cap, nodes) ==
    /\ \A i, j \in 1..Len(cap) : i # j => perm[i] # perm[j]
    /\ \A k \in 1..Len(cap) : nodes[k] = cap[perm[k]]
    /\ \A k \in 1..(Len(cap) - 1) :
         /\ KeyLeq(SortKey(nodes[k]), SortKey(nodes[k + 1]))
         /\ SortKey(nodes[k]) = SortKey(nodes[k + 1]) => perm[k] < perm[k + 1]

\* The number of paint operations on the canvas of c after each of the
\* first passes of its loop (0 passes included)
OpsAfter(c) ==
    [k \in 0..(R[c].i - 1) |->
        Len(RenderPrefix(R[c].nodes, k, R[c], S[c],
                         [j \in 1..k |-> Env(ROW_ASPECT, ASCII_IMG_W, caps.pil, caps.cairosvg)],
                         R[c].answers).canvas)]

\* The pass of the loop that made paint operation j, given the counts ops
OwnerOf(ops, j) == CHOOSE k \in (DOMAIN ops) \ {0} : ops[k - 1] < j /\ j <= ops[k]

\* The strings rows of paint operation o reach the cell at row r, column c
OpCovers(o, rows, r, c) ==
    /\ (r - o.row) \in 0..(Len(rows) - 1)
    /\ (c - o.col) \in 0..(Len(rows[r - o.row + 1]) - 1)

\* C21: the list the loop walks is the captured list in non-decreasing
\* (z, y, x, area) order with equal keys in capture order; each pass takes
\* the next node of that list and only adds paint operations; and in every
\* cell that several nodes wrote, the character shown was written by the
\* node latest in the list, whose key is not smaller than any other's.
C21_PaintOrder ==
    /\ [](\A c \in Conns :
            fn.op = "capture" /\ R[c].phase # "none" =>
              /\ Len(R[c].nodes) = Len(fn.nodes)
              /\ \E perm \in [1..Len(fn.nodes) -> 1..Len(fn.nodes)] :
                   IsStableOrdering(perm, fn.nodes, R[c].nodes)
              /\ \A ops \in {OpsAfter(c)}, canvas \in {R[c].acc.canvas} :
                 \A rs \in {[j \in 1..Len(canvas) |-> RowsOf(canvas[j])]},
                    lines \in {LinesAfter(canvas, Len(canvas), R[c].W)} :
                   /\ ops[R[c].i - 1] = Len(canvas)
                   /\ \A r \in 1..Len(lines), col \in 1..R[c].W :
                        LET writers == {j \in 1..Len(canvas) :
                                          OpCovers(canvas[j], rs[j], r - 1, col - 1)}
                            owners == {OwnerOf(ops, j) : j \in writers}
                            top == CHOOSE k \in owners : \A m \in owners : m <= k
                        IN  writers # {} =>
                              /\ \E j \in writers :
                                   /\ OwnerOf(ops, j) = top
                                   /\ lines[r][col] = rs[j][r - canvas[j].row][col - canvas[j].col]
                              /\ \A m \in owners :
                                   KeyLeq(SortKey(R[c].nodes[m]), SortKey(R[c].nodes[top])))
    /\ [][\A c \in Conns :
            R[c].phase = "loop" /\ R'[c].phase = "loop" =>
              /\ R'[c].nodes = R[c].nodes
              /\ R'[c].i = R[c].i + 1
              /\ Len(R'[c].acc.canvas) >= Len(R[c].acc.canvas)
              /\ SubSeq(R'[c].acc.canvas, 1, Len(R[c].acc.canvas)) = R[c].acc.canvas
              /\ \A k \in (Len(R[c].acc.canvas) + 1)..Len(R'[c].acc.canvas) :
                   /\ R'[c].acc.canvas[k].col = CurRect(c).x
                   /\ R'[c].acc.canvas[k].row \in {CurRect(c).y, CurRect(c).y + 1}]_vars

\* Captured in the order front (z = 1), wide paragraph, heading: the loop
\* walked heading, wide paragraph, front, and the first row shows the front
\* node's text over the paragraph's, whose tail stays
C21_Witness ==
    /\ fn.op = "capture"
    /\ fn.nodes = <<nFront, nWide, nWeather>>
    /\ R["A"].phase = "returned"
    /\ R["A"].nodes = <<nWeather, nWide, nFront>>
    /\ R["A"].W = MinWidth
    /\ Len(R["A"].acc.canvas) = 3
    /\ SubSeq(LinesAfter(R["A"].acc.canvas, 3, MinWidth)[1], 1, 19)
         = <<"*", "*", "B", "r", "e", "a", "k", "i", "n", "g", " ", "N", "e", "d", "l", "i", "n", "e", " ">>

\* C22: the canvas is a list of rows of exactly W cells; a draw call never
\* removes a row; a call that writes strings from row r on leaves every row
\* it addressed in place; and the characters that would fall right of
\* column W - 1 are dropped: the call has the effect of the same call with
\* its strings cut at the right edge.
C22_CanvasShape ==
    /\ [](fn.op = "canvas" => \A r \in 1..Len(fn.lines) : Len(fn.lines[r]) = fn.W)
    /\ [][fn.op = "canvas" =>
            /\ Len(fn'.lines) >= Len(fn.lines)
            /\ Len(fn'.calls) = Len(fn.calls) + 1 =>
                 \A o \in {fn'.calls[Len(fn'.calls)]} : \A rows \in {RowsOf(o)} :
                   /\ Len(fn'.lines) >= o.row + Len(rows)
                   /\ fn'.lines = PutRows(fn.lines, o.row, o.col,
                                          [k \in 1..Len(rows) |-> Take(rows[k], fn.W - o.col)],
                                          fn.W)]_vars

\* A three-line text was drawn from row 1, column 56 of an empty canvas
\* of 60 columns: three rows were added below row 0 and only the first
\* four characters of each line are on the canvas
C22_Witness ==
    /\ fn.op = "canvas"
    /\ Len(fn.calls) = 1
    /\ fn.calls[1].op = "text" /\ fn.calls[1].row = 1 /\ fn.calls[1].col = 56
    /\ fn.calls[1].text = TextBanner /\ ~fn.calls[1].bold
    /\ Len(fn.lines) = 4
    /\ SubSeq(fn.lines[2], 56, 60) = <<" ", "S", "a", "l", "e">>
    /\ SubSeq(fn.lines[4], 56, 60) = <<" ", "p", "r", "o", "m">>

\* "\n".join(lines)
JoinNl(lines) ==
    IF lines = <<>> THEN <<>>
    ELSE SubSeq(JoinLines(lines), 1, Len(JoinLines(lines)) - 1)

\* compress_blank, lines 110-116, from string to string
compress_blank_str(s) == JoinNl(compress_blank(SplitLines(s), FALSE))

\* The rows of the canvas of page text t as TermCanvas.render joins them
\* (line 431), and the string of line 629
RenderedRows(t) == canvas_render(LinesAfter(t.canvas, Len(t.canvas), t.W))

IsBlankLine(l) == Strip(l) = <<>>

\* C23: in the text a render publishes no two consecutive lines are blank,
\* no line that comes from the canvas ends with a space, the non-blank
\* lines are those of the canvas and of the listings in their order, and
\* compress_blank maps the text to itself.
C23_FlattenedText ==
    \A c \in Conns :
        R[c].phase = "returned" /\ S[c].full_text.kind = "render" =>
          \A t \in {S[c].full_text} : \A rows \in {RenderedRows(t)}, out \in {Flatten(t)} :
            /\ \A k \in 1..(Len(out) - 1) : ~(IsBlankLine(out[k]) /\ IsBlankLine(out[k + 1]))
            /\ \A r \in 1..Len(rows) : rows[r] = <<>> \/ rows[r][Len(rows[r])] # " "
            /\ SelectSeq(out, LAMBDA l : ~IsBlankLine(l))
                 = SelectSeq(rows, LAMBDA l : ~IsBlankLine(l))
                     \o << <<"#", " ", t.url>> >>
                     \o (IF t.links # <<>>
                         THEN << <<"-", "-", " ", "L", "i", "n", "k", "s", " ", "-", "-">> >> \o Listing(t.links)
                         ELSE <<>>)
                     \o (IF t.images # <<>>
                         THEN << <<"-", "-", " ", "I", "m", "a", "g", "e", "s", " ", "-", "-">> >> \o Listing(t.images)
                         ELSE <<>>)
            /\ compress_blank_str(JoinNl(out)) = JoinNl(out)

\* The home page was rendered at 60 columns with images off: the four
\* empty rows between the placeholder and the two links (wrapped to two
\* rows, the second link over the first) came out as one blank line, and
\* one blank line stands before each listing
C23_Witness ==
    /\ R["A"].phase = "returned"
    /\ R["A"].nodes = Web(UrlHome)
    /\ R["A"].W = MinWidth
    /\ ~S["A"].auto_image
    /\ Len(RenderedRows(S["A"].full_text)) = 7
    /\ Flatten(S["A"].full_text)
         = << ImgLabel(1), <<>>,
              <<"R", "e", "a">> \o TextReadMore,
              <<"[", "1", "]", "[", "2", "]">>,
              <<"#", " ", UrlHome>>, <<>>,
              <<"-", "-", " ", "L", "i", "n", "k", "s", " ", "-", "-">>,
              <<"[", "1", "]", " ", "<", UrlNews, ">">>,
              <<"[", "2", "]", " ", "<", UrlSport, ">">>, <<>>,
              <<"-", "-", " ", "I", "m", "a", "g", "e", "s", " ", "-", "-">>,
              <<"[", "1", "]", " ", "<", ImgA, ">">> >>

\* C24: a node with text is eligible whenever its tag is a heading, p, li,
\* td, th, figcaption, button or label; a div, span, section or article
\* exactly when its display is not inline and its text has 30 characters
\* or more; a node of any other tag but a is never eligible.
C24_EligibilityByTag ==
    fn.op = "elig_out" =>
        /\ (fn.n.txt # <<>> /\ fn.n.tag \in {"h1", "h2", "h3", "h4", "h5", "h6", "p", "li",
                                            "td", "th", "figcaption", "button", "label"})
             => fn.out
        /\ fn.n.tag \in {"div", "span", "section", "article"}
             => (fn.out <=> (fn.n.disp # "inline" /\ Len(fn.n.txt) >= 30))
        /\ fn.n.tag \notin {"h1", "h2", "h3", "h4", "h5", "h6", "p", "li", "td", "th",
                           "figcaption", "button", "label", "div", "span", "section",
                           "article", "a"}
             => ~fn.out

\* An inline-block span of exactly 30 characters is eligible
C24_Witness ==
    /\ fn.op = "elig_out"
    /\ fn.n.tag = "span"
    /\ fn.n.disp = "inline-block"
    /\ Len(fn.n.txt) = 30
    /\ fn.out

\* C25 as stated: every line a render writes for a bold node starts with
\* the marker ** and ends with the marker **.
C25_BoldBracketed ==
    \A c \in Conns : \A k \in 1..Len(R[c].acc.canvas) :
        R[c].acc.canvas[k].op = "text" /\ R[c].acc.canvas[k].bold =>
            \A rows \in {RowsOf(R[c].acc.canvas[k])} : \A r \in 1..Len(rows) :
                /\ Len(rows[r]) >= 4
                /\ SubSeq(rows[r], 1, 2) = <<"*", "*">>
                /\ SubSeq(rows[r], Len(rows[r]) - 1, Len(rows[r])) = <<"*", "*">>

\* The settings a render on connection d works with
SettingsOf(d) ==
    [width |-> S[d].width, row_aspect |-> ROW_ASPECT, ascii_img_w |-> ASCII_IMG_W,
     auto_image |-> S[d].auto_image, filter_icons |-> S[d].filter_icons,
     js_mode |-> S[d].js_mode]

\* C26 as stated: a command changes the settings of the connection that
\* issued it only; every step that reads a command line leaves the
\* settings of all connections but one as they were.
C26_SettingsPerConnection ==
    [][ncmd' = ncmd + 1 =>
         \E c \in Conns : \A d \in Conns \ {c} : SettingsOf(d)' = SettingsOf(d)]_vars

\* This step read a digits-only line on connection c
NumericStep(c) ==
    /\ ncmd' = ncmd + 1
    /\ fn'.op = "line"
    /\ fn'.k = ncmd'
    /\ fn'.conn = c

\* This step called load_url(url) on connection c for a digits-only line
LoadsByNumber(c, url) ==
    /\ R'[c].via = "number"
    /\ R'[c].url = url
    /\ R'[c].phase \in {"loop", "returned", "escaped"}
    /\ S'[c].history = (IF S[c].current_url # "" THEN Append(S[c].history, S[c].current_url)
                        ELSE S[c].history)

\* C27: for a digits-only line n, search result n is opened when the last
\* search left results and 1 <= n <= their number, whatever links the
\* current page has; otherwise link n of the page is followed when
\* 1 <= n <= number of links; otherwise nothing is loaded and the session
\* is left as it was.
C27_ResultBeforeLink ==
    [][\A c \in Conns :
         NumericStep(c) =>
           LET n == fn'.n
               res == S[c].last_results
           IN  IF res # <<>> /\ 1 <= n /\ n <= Len(res)
               THEN fn'.branch = "result" /\ LoadsByNumber(c, res[n].link)
               ELSE IF 1 <= n /\ n <= Len(S[c].links)
               THEN fn'.branch = "link" /\ LoadsByNumber(c, S[c].links[n].href)
               ELSE /\ fn'.branch = "invalid"
                    /\ S' = S
                    /\ R' = R
                    /\ conn' = conn]_vars

\* A, holding two search results, loaded the home page (links 1 and 2) and
\* sent "2": the load under way is that of search result 2, the home page
\* again, not of the page's link 2
C27_Witness ==
    /\ fn = NumericLine("A", 2, 2, "result")
    /\ S["A"].last_results = <<[link |-> UrlNews], [link |-> UrlHome]>>
    /\ S["A"].links = LinkList(<<UrlNews, UrlSport>>)
    /\ S["A"].history = <<UrlHome>>
    /\ R["A"].via = "number"
    /\ R["A"].url = UrlHome
    /\ R["A"].phase = "loop"

\* C28: the budget goes by occurrences of image nodes.  With auto-image
\* on, pass j of the loop fetches exactly when node j is an image node and
\* fewer than AUTO_IMG_MAX image nodes came before it, whether or not its
\* URL is already registered and whatever the earlier fetches answered;
\* every fetch, failed or not, counts one; so the conversions attempted
\* number min(AUTO_IMG_MAX, image-node occurrences), while the registry
\* holds each URL once.
C28_BudgetPerOccurrence ==
    \A c \in Conns :
        R[c].path = "layout" /\ R[c].auto_image =>
            /\ \A j \in 1..Len(R[c].answers) :
                 R[c].answers[j] # "none" <=>
                     /\ IsImageNode(R[c].nodes[j])
                     /\ Cardinality(ImageNodesDone(c, j - 1)) < AUTO_IMG_MAX
            /\ R[c].acc.auto_img_count
                 = Min(AUTO_IMG_MAX, Cardinality(ImageNodesDone(c, Len(R[c].answers))))
            /\ Cardinality({k \in 1..Len(R[c].acc.canvas) : R[c].acc.canvas[k].op = "art"})
                 = R[c].acc.auto_img_count
            /\ NoRepeat(R[c].acc.image_map)

\* The same image came three times, then another: the first fetch failed,
\* the second did not decode, the third converted, each with index 1, and
\* nothing was left for the fourth node
C28_Witness ==
    /\ R["A"].phase = "returned"
    /\ R["A"].auto_image
    /\ R["A"].nodes = <<nImg, nImg, nImg, nSvg>>
    /\ R["A"].answers = <<"fetch_error", "corrupt", "raster", "none">>
    /\ R["A"].acc.auto_img_count = AUTO_IMG_MAX
    /\ R["A"].acc.image_map = <<ImgA, ImgSvg>>
    /\ Len(R["A"].acc.canvas) = 7
    /\ R["A"].acc.canvas[5].text = ImgLabel(1)
    /\ R["A"].acc.canvas[6].art.kind = "art"
    /\ R["A"].acc.canvas[7].text = ImgLabel(2)

\* C29: with a viewport width that is at least 1200 and at least the right
\* edge of the node, a node with x >= 0 and w >= 1 projects to a column in
\* 0..W-1, and the first character of a text painted there is on the
\* canvas, in that column of the row.
C29_ColumnOnCanvas ==
    fn.op = "proj_out" /\ fn.n.x >= 0 /\ fn.n.w >= 1 =>
        /\ fn.vp_w >= MinViewportPx
        /\ fn.vp_w >= fn.n.x + fn.n.w
        /\ 0 <= fn.out.x
        /\ fn.out.x < fn.W
        /\ \A lines \in {LinesAfter(draw_text_block(<<>>, 0, fn.out.x, fn.out.w,
                                                   ImgLabel(1), FALSE), 1, fn.W)} :
             /\ Len(lines) >= 1
             /\ lines[1][fn.out.x + 1] = "["
             /\ \A c \in 1..fn.out.x : lines[1][c] = " "

\* A node 7 px wide at x = 1500 is the right edge of the viewport: at 60
\* columns it lands in the last column
C29_Witness ==
    /\ fn.op = "proj_out"
    /\ fn.n.x = 1500
    /\ fn.n.w = 7
    /\ fn.vp_w = 1507
    /\ fn.W = MinWidth
    /\ fn.out.x = 59

=============================================================================
